---- MODULE Spec2Model ----
(***************************************************************************)
(* The three ledger contracts of the USSD DeFi system as one state machine:*)
(*   WalletRegistry (src/unnamed/part_003), P2PTransfer                    *)
(*   (src/unnamed/part_002) and MicroLoan (src/contracts/MicroLoan.sol).   *)
(*                                                                         *)
(* Every external function is one action.  A call that reverts leaves the  *)
(* contract state as it was (the EVM discards the writes of a reverted     *)
(* call) and is visible only in `last`, which records the function called, *)
(* its arguments, the error it reverted with ("ok" when it returned) and   *)
(* the ether it paid out.                                                  *)
(*                                                                         *)
(* Amounts are naturals.  The constructor defaults are written in units of *)
(* 0.0001 ether so that they fit the integers of the model checker; the    *)
(* arithmetic is the integer arithmetic of the contracts.  Time is counted *)
(* in ticks of half a day (DAY ticks make the `1 days` of the source).     *)
(***************************************************************************)
EXTENDS Naturals, Integers, Sequences, FiniteSets, TLC

VARIABLES
    \* ---- WalletRegistry
    phoneToWallet,        \* bytes32 => address
    walletToPhone,        \* address => bytes32
    phoneToPinHash,       \* bytes32 => bytes32
    isRegistered,         \* bytes32 => bool
    regBackends,          \* WalletRegistry.authorizedBackends, as a set
    totalUsers,
    \* ---- P2PTransfer
    transactionHistory,   \* bytes32 => Transaction[]
    transactionByHash,    \* bytes32 => Transaction, as the set of stored pairs
    transferFeeBps,
    minTransferAmount,
    maxTransferAmount,
    dailyTransferLimit,
    dailyTransfers,       \* bytes32 => day => uint256
    accumulatedFees,
    totalTransactions,
    totalVolume,
    p2pBackends,          \* P2PTransfer.authorizedBackends, as a set
    p2pPaused,
    p2pBalance,           \* address(P2PTransfer).balance
    \* ---- MicroLoan
    loans,                \* bytes32 => Loan
    loanHistory,          \* bytes32 => uint256[]
    loansById,            \* uint256 => Loan, for the ids issued so far
    loanTiers,            \* uint256 => LoanTier, for the ids below tierCount
    tierCount,
    minCollateralRatio,
    totalLoansIssued,
    totalActiveLoanValue,
    availableLiquidity,
    totalInterestEarned,
    loanBackends,         \* MicroLoan.authorizedBackends, as a set
    loanPaused,
    loanBalance,          \* address(MicroLoan).balance
    \* ---- environment
    now,                  \* block.timestamp, in ticks
    last                  \* the last call: [op, args, err, paid]

regVars  == <<phoneToWallet, walletToPhone, phoneToPinHash, isRegistered,
              regBackends, totalUsers>>
p2pVars  == <<transactionHistory, transactionByHash, transferFeeBps,
              minTransferAmount, maxTransferAmount, dailyTransferLimit,
              dailyTransfers, accumulatedFees, totalTransactions, totalVolume,
              p2pBackends, p2pPaused, p2pBalance>>
loanVars == <<loans, loanHistory, loansById, loanTiers, tierCount,
              minCollateralRatio, totalLoansIssued, totalActiveLoanValue,
              availableLiquidity, totalInterestEarned, loanBackends,
              loanPaused, loanBalance>>
vars     == <<regVars, p2pVars, loanVars, now, last>>

-----------------------------------------------------------------------------
(* Values of the model *)

ZeroHash    == "0x0"          \* bytes32(0)
ZeroAddress == "address0"     \* address(0)
Owner       == "owner"        \* the deployer: owner() of the three contracts
Backend     == "backend"      \* an account the owner may authorize
Stranger    == "stranger"     \* an account nobody authorizes

PhoneHashes == {ZeroHash, "p1", "p2"}
Wallets     == {"w1", "w2"}
Addresses   == {ZeroAddress, Owner, Backend, Stranger} \cup Wallets
PinHashes   == {ZeroHash, "pinA", "pinB"}
Callers     == {Owner, Backend, Stranger}

\* What `last` keeps of a call: the function, its arguments, its revert ("ok"
\* when it returned), the ether it sent out and the account it sent it to.
Paid(op, args, err, paid, to) ==
    [op |-> op, args |-> args, err |-> err, paid |-> paid, to |-> to]
Result(op, args, err, paid) == Paid(op, args, err, paid, ZeroAddress)

-----------------------------------------------------------------------------
(* WalletRegistry *)

\* A faulty variant of onlyAuthorized: no caller is turned away.
RegAuthorizedAnyone(caller) == caller \in Callers

\* modifier onlyAuthorized
RegAuthorized(caller) == caller \in regBackends \/ caller = Owner

\* A faulty variant of the checks of registerWallet: the zero address is
\* taken for a wallet.
RegisterWalletErrorZeroWallet(caller, phoneHash, wallet, pinHash) ==
    IF ~RegAuthorized(caller) THEN "NotAuthorized"
    ELSE IF isRegistered[phoneHash] THEN "PhoneAlreadyRegistered"
    ELSE IF walletToPhone[wallet] # ZeroHash THEN "WalletAlreadyRegistered"
    ELSE IF pinHash = ZeroHash THEN "InvalidPinHash"
    ELSE "ok"

\* The revert of registerWallet, "ok" when it goes through.
RegisterWalletError(caller, phoneHash, wallet, pinHash) ==
    IF ~RegAuthorized(caller) THEN "NotAuthorized"
    ELSE IF isRegistered[phoneHash] THEN "PhoneAlreadyRegistered"
    ELSE IF wallet = ZeroAddress THEN "InvalidWalletAddress"
    ELSE IF walletToPhone[wallet] # ZeroHash THEN "WalletAlreadyRegistered"
    ELSE IF pinHash = ZeroHash THEN "InvalidPinHash"
    ELSE "ok"

RegisterWallet(caller, phoneHash, wallet, pinHash) ==
    LET err == RegisterWalletError(caller, phoneHash, wallet, pinHash) IN
    /\ last' = Result("registerWallet", <<caller, phoneHash, wallet, pinHash>>,
                      err, 0)
    /\ IF err = "ok"
       THEN /\ phoneToWallet' = [phoneToWallet EXCEPT ![phoneHash] = wallet]
            /\ walletToPhone' = [walletToPhone EXCEPT ![wallet] = phoneHash]
            /\ phoneToPinHash' = [phoneToPinHash EXCEPT ![phoneHash] = pinHash]
            /\ isRegistered' = [isRegistered EXCEPT ![phoneHash] = TRUE]
            /\ totalUsers' = totalUsers + 1
            /\ UNCHANGED regBackends
       ELSE UNCHANGED regVars
    /\ UNCHANGED <<p2pVars, loanVars, now>>

\* The views of the registry.
getWallet(phoneHash) == phoneToWallet[phoneHash]
getPhoneHash(wallet) == walletToPhone[wallet]
checkRegistration(phoneHash) == isRegistered[phoneHash]
\* A faulty variant of verifyPin: the stored hash is compared without asking
\* whether the identity is registered.
verifyPinUnregistered(phoneHash, pinHash) == phoneToPinHash[phoneHash] = pinHash

verifyPin(phoneHash, pinHash) ==
    IF ~isRegistered[phoneHash] THEN FALSE
    ELSE phoneToPinHash[phoneHash] = pinHash

\* A faulty variant of the checks of updatePin: the registration of the
\* identity is not looked at.
UpdatePinErrorUnregistered(caller, phoneHash, newPinHash) ==
    IF ~RegAuthorized(caller) THEN "NotAuthorized"
    ELSE IF newPinHash = ZeroHash THEN "InvalidPinHash"
    ELSE "ok"

UpdatePinError(caller, phoneHash, newPinHash) ==
    IF ~RegAuthorized(caller) THEN "NotAuthorized"
    ELSE IF ~isRegistered[phoneHash] THEN "PhoneNotRegistered"
    ELSE IF newPinHash = ZeroHash THEN "InvalidPinHash"
    ELSE "ok"

UpdatePin(caller, phoneHash, newPinHash) ==
    LET err == UpdatePinError(caller, phoneHash, newPinHash) IN
    /\ last' = Result("updatePin", <<caller, phoneHash, newPinHash>>, err, 0)
    /\ IF err = "ok"
       THEN /\ phoneToPinHash' = [phoneToPinHash EXCEPT ![phoneHash] = newPinHash]
            /\ UNCHANGED <<phoneToWallet, walletToPhone, isRegistered,
                           regBackends, totalUsers>>
       ELSE UNCHANGED regVars
    /\ UNCHANGED <<p2pVars, loanVars, now>>

UpdateWalletError(caller, phoneHash, newWallet) ==
    IF ~RegAuthorized(caller) THEN "NotAuthorized"
    ELSE IF ~isRegistered[phoneHash] THEN "PhoneNotRegistered"
    ELSE IF newWallet = ZeroAddress THEN "InvalidWalletAddress"
    ELSE IF walletToPhone[newWallet] # ZeroHash THEN "WalletAlreadyRegistered"
    ELSE "ok"

UpdateWallet(caller, phoneHash, newWallet) ==
    LET err == UpdateWalletError(caller, phoneHash, newWallet)
        oldWallet == phoneToWallet[phoneHash]
    IN
    /\ last' = Result("updateWallet", <<caller, phoneHash, newWallet>>, err, 0)
    /\ IF err = "ok"
       THEN /\ walletToPhone' = [walletToPhone EXCEPT ![oldWallet] = ZeroHash,
                                                      ![newWallet] = phoneHash]
            /\ phoneToWallet' = [phoneToWallet EXCEPT ![phoneHash] = newWallet]
            /\ UNCHANGED <<phoneToPinHash, isRegistered, regBackends, totalUsers>>
       ELSE UNCHANGED regVars
    /\ UNCHANGED <<p2pVars, loanVars, now>>

RegAddAuthorizedBackend(caller, backend) ==
    LET err == IF caller # Owner THEN "OwnableUnauthorizedAccount"
               ELSE IF backend = ZeroAddress THEN "InvalidWalletAddress"
               ELSE "ok"
    IN
    /\ last' = Result("registry.addAuthorizedBackend", <<caller, backend>>,
                      err, 0)
    /\ regBackends' = IF err = "ok" THEN regBackends \cup {backend} ELSE regBackends
    /\ UNCHANGED <<phoneToWallet, walletToPhone, phoneToPinHash, isRegistered,
                   totalUsers, p2pVars, loanVars, now>>

RegRemoveAuthorizedBackend(caller, backend) ==
    LET err == IF caller # Owner THEN "OwnableUnauthorizedAccount" ELSE "ok" IN
    /\ last' = Result("registry.removeAuthorizedBackend", <<caller, backend>>,
                      err, 0)
    /\ regBackends' = IF err = "ok" THEN regBackends \ {backend} ELSE regBackends
    /\ UNCHANGED <<phoneToWallet, walletToPhone, phoneToPinHash, isRegistered,
                   totalUsers, p2pVars, loanVars, now>>

-----------------------------------------------------------------------------
(* Time *)

DAY == 2          \* `1 days`, in ticks
MaxNow == 2       \* the last timestamp of a run of transfers

\* The next block: its timestamp t is later than the current one.
Tick(t) ==
    /\ t > now
    /\ now' = t
    /\ last' = Result("tick", <<t>>, "ok", 0)
    /\ UNCHANGED <<regVars, p2pVars, loanVars>>

Days == 0 .. (MaxNow \div DAY)

-----------------------------------------------------------------------------
(* P2PTransfer *)

MAX_FEE_BPS == 500
MaxTx == 2        \* transfers that may succeed in one run

\* modifier onlyAuthorized
P2PAuthorized(caller) == caller \in p2pBackends \/ caller = Owner

\* uint256 today = block.timestamp / 1 days
Today == now \div DAY

\* uint256 fee = (msg.value * transferFeeBps) / 10000
CalcFeeCeil(amount) == (amount * transferFeeBps + 9999) \div 10000
CalcFee(amount) == (amount * transferFeeBps) \div 10000

\* calculateFee(amount): (fee, netAmount)
calculateFee(amount) == <<CalcFee(amount), amount - CalcFee(amount)>>

\* Two faulty variants of TransferError: the daily check with >= for >, and the
\* pause check moved behind the validations.
TransferErrorGeq(caller, fromPhoneHash, toPhoneHash, value, settled) ==
    IF ~P2PAuthorized(caller) THEN "NotAuthorized"
    ELSE IF p2pPaused THEN "EnforcedPause"
    ELSE IF value < minTransferAmount \/ value > maxTransferAmount
         THEN "InvalidAmount"
    ELSE IF fromPhoneHash = toPhoneHash THEN "SelfTransferNotAllowed"
    ELSE IF ~checkRegistration(toPhoneHash) THEN "RecipientNotRegistered"
    ELSE IF dailyTransfers[fromPhoneHash][Today] + value >= dailyTransferLimit
         THEN "DailyLimitExceeded"
    ELSE IF ~settled THEN "TransferFailed"
    ELSE "ok"

TransferErrorPauseLast(caller, fromPhoneHash, toPhoneHash, value, settled) ==
    IF ~P2PAuthorized(caller) THEN "NotAuthorized"
    ELSE IF value < minTransferAmount \/ value > maxTransferAmount
         THEN "InvalidAmount"
    ELSE IF fromPhoneHash = toPhoneHash THEN "SelfTransferNotAllowed"
    ELSE IF ~checkRegistration(toPhoneHash) THEN "RecipientNotRegistered"
    ELSE IF dailyTransfers[fromPhoneHash][Today] + value > dailyTransferLimit
         THEN "DailyLimitExceeded"
    ELSE IF p2pPaused THEN "EnforcedPause"
    ELSE IF ~settled THEN "TransferFailed"
    ELSE "ok"

\* A faulty variant of TransferError: the result of the payout is not looked at.
TransferErrorUncheckedSend(caller, fromPhoneHash, toPhoneHash, value, settled) ==
    IF ~P2PAuthorized(caller) THEN "NotAuthorized"
    ELSE IF p2pPaused THEN "EnforcedPause"
    ELSE IF value < minTransferAmount \/ value > maxTransferAmount
         THEN "InvalidAmount"
    ELSE IF fromPhoneHash = toPhoneHash THEN "SelfTransferNotAllowed"
    ELSE IF ~checkRegistration(toPhoneHash) THEN "RecipientNotRegistered"
    ELSE IF dailyTransfers[fromPhoneHash][Today] + value > dailyTransferLimit
         THEN "DailyLimitExceeded"
    ELSE "ok"

\* The revert of transfer, "ok" when it goes through: the modifiers
\* onlyAuthorized, nonReentrant, whenNotPaused in the order they are written,
\* then the checks of the body; `settled` is the outcome of the call that
\* hands the net amount to the recipient's wallet.
\* A faulty variant of the checks of transfer: whenNotPaused is missing.
TransferErrorNoPause(caller, fromPhoneHash, toPhoneHash, value, settled) ==
    IF ~P2PAuthorized(caller) THEN "NotAuthorized"
    ELSE IF value < minTransferAmount \/ value > maxTransferAmount
         THEN "InvalidAmount"
    ELSE IF fromPhoneHash = toPhoneHash THEN "SelfTransferNotAllowed"
    ELSE IF ~checkRegistration(toPhoneHash) THEN "RecipientNotRegistered"
    ELSE IF dailyTransfers[fromPhoneHash][Today] + value > dailyTransferLimit
         THEN "DailyLimitExceeded"
    ELSE IF ~settled THEN "TransferFailed"
    ELSE "ok"

TransferError(caller, fromPhoneHash, toPhoneHash, value, settled) ==
    IF ~P2PAuthorized(caller) THEN "NotAuthorized"
    ELSE IF p2pPaused THEN "EnforcedPause"
    ELSE IF value < minTransferAmount \/ value > maxTransferAmount
         THEN "InvalidAmount"
    ELSE IF fromPhoneHash = toPhoneHash THEN "SelfTransferNotAllowed"
    ELSE IF ~checkRegistration(toPhoneHash) THEN "RecipientNotRegistered"
    ELSE IF dailyTransfers[fromPhoneHash][Today] + value > dailyTransferLimit
         THEN "DailyLimitExceeded"
    ELSE IF ~settled THEN "TransferFailed"
    ELSE "ok"

\* keccak256(abi.encodePacked(from, to, msg.value, block.timestamp,
\* totalTransactions)): the packed tuple stands for its hash.
\* A faulty variant of the hash: totalTransactions is not packed in.
TxHashNoCounter(fromPhoneHash, toPhoneHash, value) ==
    <<fromPhoneHash, toPhoneHash, value, now>>

TxHash(fromPhoneHash, toPhoneHash, value) ==
    <<fromPhoneHash, toPhoneHash, value, now, totalTransactions>>

Transfer(caller, fromPhoneHash, toPhoneHash, value, settled) ==
    LET err == TransferError(caller, fromPhoneHash, toPhoneHash, value, settled)
        fee == CalcFee(value)
        transferAmount == value - fee
        txHash == TxHash(fromPhoneHash, toPhoneHash, value)
        txRecord == [fromPhoneHash |-> fromPhoneHash,
                     toPhoneHash   |-> toPhoneHash,
                     amount        |-> transferAmount,
                     fee           |-> fee,
                     timestamp     |-> now,
                     txHash        |-> txHash]
    IN
    /\ err = "ok" => totalTransactions < MaxTx
    /\ IF err = "ok"
       THEN /\ last' = Paid("transfer",
                            <<caller, fromPhoneHash, toPhoneHash, value, settled>>,
                            err, transferAmount, getWallet(toPhoneHash))
            /\ dailyTransfers' =
                 [dailyTransfers EXCEPT ![fromPhoneHash][Today] = @ + value]
            \* the two pushes, one after the other
            /\ transactionHistory' =
                 [transactionHistory EXCEPT
                    ![fromPhoneHash] = Append(@, txRecord),
                    ![toPhoneHash]   = Append(@, txRecord)]
            /\ transactionByHash' =
                 [h \in DOMAIN transactionByHash \cup {txHash} |->
                    IF h = txHash THEN txRecord ELSE transactionByHash[h]]
            /\ accumulatedFees' = accumulatedFees + fee
            /\ totalTransactions' = totalTransactions + 1
            /\ totalVolume' = totalVolume + transferAmount
            /\ p2pBalance' = p2pBalance + value - transferAmount
            /\ UNCHANGED <<transferFeeBps, minTransferAmount, maxTransferAmount,
                           dailyTransferLimit, p2pBackends, p2pPaused>>
       ELSE /\ last' = Result("transfer",
                              <<caller, fromPhoneHash, toPhoneHash, value, settled>>,
                              err, 0)
            /\ UNCHANGED p2pVars
    /\ UNCHANGED <<regVars, loanVars, now>>

\* A faulty variant of getTransactionHistory: the page is read from the
\* oldest record on.
getTransactionHistoryOldestFirst(phoneHash, offset, limit) ==
    LET history == transactionHistory[phoneHash]
        total == Len(history)
    IN IF total = 0 \/ offset >= total THEN << >>
       ELSE LET available == total - offset
                count == IF available < limit THEN available ELSE limit
            IN [i \in 1 .. count |-> history[offset + i]]

\* getTransactionHistory(phoneHash, offset, limit): newest first
getTransactionHistory(phoneHash, offset, limit) ==
    LET history == transactionHistory[phoneHash]
        total == Len(history)
    IN IF total = 0 \/ offset >= total THEN << >>
       ELSE LET available == total - offset
                count == IF available < limit THEN available ELSE limit
            IN [i \in 1 .. count |-> history[total - offset - (i - 1)]]

getTransactionCount(phoneHash) == Len(transactionHistory[phoneHash])

\* A faulty variant of getDailyTransferStatus: remaining is the plain
\* difference, also when the total is above the limit.
getDailyTransferStatusNoFloor(phoneHash) ==
    LET total == dailyTransfers[phoneHash][Today] IN
    <<total, dailyTransferLimit - total>>

\* getDailyTransferStatus(phoneHash): (total, remaining)
getDailyTransferStatus(phoneHash) ==
    LET total == dailyTransfers[phoneHash][Today] IN
    <<total, IF total >= dailyTransferLimit THEN 0 ELSE dailyTransferLimit - total>>

\* A faulty variant of withdrawFees: the fees are paid out and stay on the
\* books.
WithdrawFeesNoReset(caller, to, settled) ==
    LET amount == accumulatedFees
        err == IF caller # Owner THEN "OwnableUnauthorizedAccount"
               ELSE IF amount = 0 THEN "NoFeesToWithdraw"
               ELSE IF ~settled \/ p2pBalance < amount THEN "TransferFailed"
               ELSE "ok"
    IN
    /\ IF err = "ok"
       THEN /\ last' = Paid("withdrawFees", <<caller, to, settled>>,
                            err, amount, to)
            /\ accumulatedFees' = accumulatedFees
            /\ p2pBalance' = p2pBalance - amount
       ELSE /\ last' = Result("withdrawFees", <<caller, to, settled>>, err, 0)
            /\ UNCHANGED <<accumulatedFees, p2pBalance>>
    /\ UNCHANGED <<transactionHistory, transactionByHash, transferFeeBps,
                   minTransferAmount, maxTransferAmount, dailyTransferLimit,
                   dailyTransfers, totalTransactions, totalVolume, p2pBackends,
                   p2pPaused, regVars, loanVars, now>>

WithdrawFees(caller, to, settled) ==
    LET amount == accumulatedFees
        err == IF caller # Owner THEN "OwnableUnauthorizedAccount"
               ELSE IF amount = 0 THEN "NoFeesToWithdraw"
               ELSE IF ~settled \/ p2pBalance < amount THEN "TransferFailed"
               ELSE "ok"
    IN
    /\ IF err = "ok"
       THEN /\ last' = Paid("withdrawFees", <<caller, to, settled>>,
                            err, amount, to)
            /\ accumulatedFees' = 0
            /\ p2pBalance' = p2pBalance - amount
       ELSE /\ last' = Result("withdrawFees", <<caller, to, settled>>, err, 0)
            /\ UNCHANGED <<accumulatedFees, p2pBalance>>
    /\ UNCHANGED <<transactionHistory, transactionByHash, transferFeeBps,
                   minTransferAmount, maxTransferAmount, dailyTransferLimit,
                   dailyTransfers, totalTransactions, totalVolume, p2pBackends,
                   p2pPaused, regVars, loanVars, now>>

\* A faulty variant of updateFee: the rate is not held against MAX_FEE_BPS.
UpdateFeeUncapped(caller, newFeeBps) ==
    LET err == IF caller # Owner THEN "OwnableUnauthorizedAccount"
               ELSE "ok"
    IN
    /\ last' = Result("updateFee", <<caller, newFeeBps>>, err, 0)
    /\ transferFeeBps' = IF err = "ok" THEN newFeeBps ELSE transferFeeBps
    /\ UNCHANGED <<transactionHistory, transactionByHash, minTransferAmount,
                   maxTransferAmount, dailyTransferLimit, dailyTransfers,
                   accumulatedFees, totalTransactions, totalVolume, p2pBackends,
                   p2pPaused, p2pBalance, regVars, loanVars, now>>

UpdateFee(caller, newFeeBps) ==
    LET err == IF caller # Owner THEN "OwnableUnauthorizedAccount"
               ELSE IF newFeeBps > MAX_FEE_BPS THEN "InvalidFee"
               ELSE "ok"
    IN
    /\ last' = Result("updateFee", <<caller, newFeeBps>>, err, 0)
    /\ transferFeeBps' = IF err = "ok" THEN newFeeBps ELSE transferFeeBps
    /\ UNCHANGED <<transactionHistory, transactionByHash, minTransferAmount,
                   maxTransferAmount, dailyTransferLimit, dailyTransfers,
                   accumulatedFees, totalTransactions, totalVolume, p2pBackends,
                   p2pPaused, p2pBalance, regVars, loanVars, now>>

UpdateLimits(caller, minAmount, maxAmount, dailyLimit) ==
    LET err == IF caller # Owner THEN "OwnableUnauthorizedAccount"
               ELSE IF ~(minAmount < maxAmount) THEN "Invalid limits"
               ELSE "ok"
    IN
    /\ last' = Result("updateLimits",
                      <<caller, minAmount, maxAmount, dailyLimit>>,
                      err, 0)
    /\ IF err = "ok"
       THEN /\ minTransferAmount' = minAmount
            /\ maxTransferAmount' = maxAmount
            /\ dailyTransferLimit' = dailyLimit
       ELSE UNCHANGED <<minTransferAmount, maxTransferAmount, dailyTransferLimit>>
    /\ UNCHANGED <<transactionHistory, transactionByHash, transferFeeBps,
                   dailyTransfers, accumulatedFees, totalTransactions,
                   totalVolume, p2pBackends, p2pPaused, p2pBalance, regVars,
                   loanVars, now>>

P2PAddAuthorizedBackend(caller, backend) ==
    LET err == IF caller # Owner THEN "OwnableUnauthorizedAccount" ELSE "ok" IN
    /\ last' = Result("p2p.addAuthorizedBackend", <<caller, backend>>, err, 0)
    /\ p2pBackends' = IF err = "ok" THEN p2pBackends \cup {backend} ELSE p2pBackends
    /\ UNCHANGED <<transactionHistory, transactionByHash, transferFeeBps,
                   minTransferAmount, maxTransferAmount, dailyTransferLimit,
                   dailyTransfers, accumulatedFees, totalTransactions,
                   totalVolume, p2pPaused, p2pBalance, regVars, loanVars, now>>

P2PRemoveAuthorizedBackend(caller, backend) ==
    LET err == IF caller # Owner THEN "OwnableUnauthorizedAccount" ELSE "ok" IN
    /\ last' = Result("p2p.removeAuthorizedBackend", <<caller, backend>>,
                      err, 0)
    /\ p2pBackends' = IF err = "ok" THEN p2pBackends \ {backend} ELSE p2pBackends
    /\ UNCHANGED <<transactionHistory, transactionByHash, transferFeeBps,
                   minTransferAmount, maxTransferAmount, dailyTransferLimit,
                   dailyTransfers, accumulatedFees, totalTransactions,
                   totalVolume, p2pPaused, p2pBalance, regVars, loanVars, now>>

\* pause(): onlyOwner, then Pausable._pause() (whenNotPaused)
P2PPause(caller) ==
    LET err == IF caller # Owner THEN "OwnableUnauthorizedAccount"
               ELSE IF p2pPaused THEN "EnforcedPause"
               ELSE "ok"
    IN
    /\ last' = Result("p2p.pause", <<caller>>, err, 0)
    /\ p2pPaused' = IF err = "ok" THEN TRUE ELSE p2pPaused
    /\ UNCHANGED <<transactionHistory, transactionByHash, transferFeeBps,
                   minTransferAmount, maxTransferAmount, dailyTransferLimit,
                   dailyTransfers, accumulatedFees, totalTransactions,
                   totalVolume, p2pBackends, p2pBalance, regVars, loanVars, now>>

\* unpause(): onlyOwner, then Pausable._unpause() (whenPaused)
P2PUnpause(caller) ==
    LET err == IF caller # Owner THEN "OwnableUnauthorizedAccount"
               ELSE IF ~p2pPaused THEN "ExpectedPause"
               ELSE "ok"
    IN
    /\ last' = Result("p2p.unpause", <<caller>>, err, 0)
    /\ p2pPaused' = IF err = "ok" THEN FALSE ELSE p2pPaused
    /\ UNCHANGED <<transactionHistory, transactionByHash, transferFeeBps,
                   minTransferAmount, maxTransferAmount, dailyTransferLimit,
                   dailyTransfers, accumulatedFees, totalTransactions,
                   totalVolume, p2pBackends, p2pBalance, regVars, loanVars, now>>

\* A faulty variant of emergencyWithdraw: the amount is held against the
\* whole balance, the fees included.
EmergencyWithdrawWholeBalance(caller, to, amount, settled) ==
    LET err == IF caller # Owner THEN "OwnableUnauthorizedAccount"
               ELSE IF ~(amount <= p2pBalance) THEN "Exceeds available"
               ELSE IF ~settled THEN "Withdrawal failed"
               ELSE "ok"
    IN
    /\ last' = IF err = "ok"
               THEN Paid("emergencyWithdraw", <<caller, to, amount, settled>>,
                         err, amount, to)
               ELSE Result("emergencyWithdraw", <<caller, to, amount, settled>>,
                           err, 0)
    /\ p2pBalance' = IF err = "ok" THEN p2pBalance - amount ELSE p2pBalance
    /\ UNCHANGED <<transactionHistory, transactionByHash, transferFeeBps,
                   minTransferAmount, maxTransferAmount, dailyTransferLimit,
                   dailyTransfers, accumulatedFees, totalTransactions,
                   totalVolume, p2pBackends, p2pPaused, regVars, loanVars, now>>

\* emergencyWithdraw(to, amount); `balance - accumulatedFees` is checked
\* arithmetic and panics when the fees exceed the balance.
EmergencyWithdraw(caller, to, amount, settled) ==
    LET err == IF caller # Owner THEN "OwnableUnauthorizedAccount"
               ELSE IF p2pBalance < accumulatedFees THEN "Panic"
               ELSE IF ~(amount <= p2pBalance - accumulatedFees)
                    THEN "Exceeds available"
               ELSE IF ~settled THEN "Withdrawal failed"
               ELSE "ok"
    IN
    /\ last' = IF err = "ok"
               THEN Paid("emergencyWithdraw", <<caller, to, amount, settled>>,
                         err, amount, to)
               ELSE Result("emergencyWithdraw", <<caller, to, amount, settled>>,
                           err, 0)
    /\ p2pBalance' = IF err = "ok" THEN p2pBalance - amount ELSE p2pBalance
    /\ UNCHANGED <<transactionHistory, transactionByHash, transferFeeBps,
                   minTransferAmount, maxTransferAmount, dailyTransferLimit,
                   dailyTransfers, accumulatedFees, totalTransactions,
                   totalVolume, p2pBackends, p2pPaused, regVars, loanVars, now>>

\* receive() external payable {}
P2PReceive(value) ==
    /\ last' = Result("p2p.receive", <<value>>, "ok", 0)
    /\ p2pBalance' = p2pBalance + value
    /\ UNCHANGED <<transactionHistory, transactionByHash, transferFeeBps,
                   minTransferAmount, maxTransferAmount, dailyTransferLimit,
                   dailyTransfers, accumulatedFees, totalTransactions,
                   totalVolume, p2pBackends, p2pPaused, regVars, loanVars, now>>

-----------------------------------------------------------------------------
(* MicroLoan *)

MaxLoans == 2     \* loans that may be issued in one run
MaxPool == 2000   \* addLiquidity stops once the pool would pass this

NoLoan == [loanId |-> 0, principal |-> 0, collateral |-> 0, interestRate |-> 0,
           startTime |-> 0, duration |-> 0, totalDue |-> 0, repaidAmount |-> 0,
           status |-> "None"]

NoTier == [minAmount |-> 0, maxAmount |-> 0, interestRateBps |-> 0,
           minDuration |-> 0, maxDuration |-> 0, active |-> FALSE]

\* _initializeDefaultTiers()
DefaultTiers ==
    (0 :> [minAmount |-> 10, maxAmount |-> 1000, interestRateBps |-> 1500,
           minDuration |-> 7 * DAY, maxDuration |-> 30 * DAY, active |-> TRUE]) @@
    (1 :> [minAmount |-> 1000, maxAmount |-> 5000, interestRateBps |-> 1200,
           minDuration |-> 14 * DAY, maxDuration |-> 60 * DAY, active |-> TRUE]) @@
    (2 :> [minAmount |-> 5000, maxAmount |-> 20000, interestRateBps |-> 1000,
           minDuration |-> 30 * DAY, maxDuration |-> 90 * DAY, active |-> TRUE])

\* loanTiers[tierId]: a mapping reads as zero where nothing was written
TierOf(tierId) == IF tierId \in DOMAIN loanTiers THEN loanTiers[tierId] ELSE NoTier

\* modifier onlyAuthorized
LoanAuthorized(caller) == caller \in loanBackends \/ caller = Owner

\* uint256 requiredCollateral = (principal * minCollateralRatio) / 10000
RequiredCollateral(principal) == (principal * minCollateralRatio) \div 10000

\* (principal * tier.interestRateBps * duration) / (365 days * 10000)
LoanInterestCeil(principal, rateBps, duration) ==
    (principal * rateBps * duration + (365 * DAY * 10000 - 1)) \div (365 * DAY * 10000)
LoanInterest(principal, rateBps, duration) ==
    (principal * rateBps * duration) \div (365 * DAY * 10000)

\* Two faulty variants of RequestLoanError: without the check for an active loan, and
\* with the duration checked before the amount.
RequestLoanErrorNoActiveCheck(caller, phoneHash, principal, duration, tierId, collateral, settled) ==
    LET tier == TierOf(tierId) IN
    IF ~LoanAuthorized(caller) THEN "NotAuthorized"
    ELSE IF loanPaused THEN "EnforcedPause"
    ELSE IF ~checkRegistration(phoneHash) THEN "NotRegistered"
    ELSE IF ~tier.active THEN "InvalidTier"
    ELSE IF principal < tier.minAmount \/ principal > tier.maxAmount
         THEN "InvalidAmount"
    ELSE IF duration < tier.minDuration \/ duration > tier.maxDuration
         THEN "InvalidDuration"
    ELSE IF availableLiquidity < principal THEN "InsufficientLiquidity"
    ELSE IF collateral < RequiredCollateral(principal) THEN "InsufficientCollateral"
    ELSE IF ~settled \/ loanBalance + collateral < principal THEN "TransferFailed"
    ELSE "ok"

RequestLoanErrorDurationFirst(caller, phoneHash, principal, duration, tierId, collateral, settled) ==
    LET tier == TierOf(tierId) IN
    IF ~LoanAuthorized(caller) THEN "NotAuthorized"
    ELSE IF loanPaused THEN "EnforcedPause"
    ELSE IF ~checkRegistration(phoneHash) THEN "NotRegistered"
    ELSE IF loans[phoneHash].status = "Active" THEN "ActiveLoanExists"
    ELSE IF ~tier.active THEN "InvalidTier"
    ELSE IF duration < tier.minDuration \/ duration > tier.maxDuration
         THEN "InvalidDuration"
    ELSE IF principal < tier.minAmount \/ principal > tier.maxAmount
         THEN "InvalidAmount"
    ELSE IF availableLiquidity < principal THEN "InsufficientLiquidity"
    ELSE IF collateral < RequiredCollateral(principal) THEN "InsufficientCollateral"
    ELSE IF ~settled \/ loanBalance + collateral < principal THEN "TransferFailed"
    ELSE "ok"

\* A faulty variant of RequestLoanError: the result of the disbursement is not
\* looked at.
RequestLoanErrorUncheckedSend(caller, phoneHash, principal, duration, tierId, collateral, settled) ==
    LET tier == TierOf(tierId) IN
    IF ~LoanAuthorized(caller) THEN "NotAuthorized"
    ELSE IF loanPaused THEN "EnforcedPause"
    ELSE IF ~checkRegistration(phoneHash) THEN "NotRegistered"
    ELSE IF loans[phoneHash].status = "Active" THEN "ActiveLoanExists"
    ELSE IF ~tier.active THEN "InvalidTier"
    ELSE IF principal < tier.minAmount \/ principal > tier.maxAmount
         THEN "InvalidAmount"
    ELSE IF duration < tier.minDuration \/ duration > tier.maxDuration
         THEN "InvalidDuration"
    ELSE IF availableLiquidity < principal THEN "InsufficientLiquidity"
    ELSE IF collateral < RequiredCollateral(principal) THEN "InsufficientCollateral"
    ELSE "ok"

\* The revert of requestLoan, "ok" when it goes through: the modifiers
\* onlyAuthorized, nonReentrant, whenNotPaused, then the checks of the body;
\* `collateral` is msg.value and `settled` the outcome of the call that hands
\* the principal to the borrower's wallet (which also fails when the contract
\* does not hold the principal).
RequestLoanError(caller, phoneHash, principal, duration, tierId, collateral, settled) ==
    LET tier == TierOf(tierId) IN
    IF ~LoanAuthorized(caller) THEN "NotAuthorized"
    ELSE IF loanPaused THEN "EnforcedPause"
    ELSE IF ~checkRegistration(phoneHash) THEN "NotRegistered"
    ELSE IF loans[phoneHash].status = "Active" THEN "ActiveLoanExists"
    ELSE IF ~tier.active THEN "InvalidTier"
    ELSE IF principal < tier.minAmount \/ principal > tier.maxAmount
         THEN "InvalidAmount"
    ELSE IF duration < tier.minDuration \/ duration > tier.maxDuration
         THEN "InvalidDuration"
    ELSE IF availableLiquidity < principal THEN "InsufficientLiquidity"
    ELSE IF collateral < RequiredCollateral(principal) THEN "InsufficientCollateral"
    ELSE IF ~settled \/ loanBalance + collateral < principal THEN "TransferFailed"
    ELSE "ok"

RequestLoan(caller, phoneHash, principal, duration, tierId, collateral, settled) ==
    LET err == RequestLoanError(caller, phoneHash, principal, duration, tierId,
                                collateral, settled)
        tier == TierOf(tierId)
        interest == LoanInterest(principal, tier.interestRateBps, duration)
        loanId == totalLoansIssued
        newLoan == [loanId       |-> loanId,
                    principal    |-> principal,
                    collateral   |-> collateral,
                    interestRate |-> tier.interestRateBps,
                    startTime    |-> now,
                    duration     |-> duration,
                    totalDue     |-> principal + interest,
                    repaidAmount |-> 0,
                    status       |-> "Active"]
    IN
    /\ err = "ok" => totalLoansIssued < MaxLoans
    /\ IF err = "ok"
       THEN /\ last' = Paid("requestLoan",
                            <<caller, phoneHash, principal, duration, tierId,
                              collateral, settled>>,
                            err, principal, getWallet(phoneHash))
            /\ totalLoansIssued' = totalLoansIssued + 1
            /\ loans' = [loans EXCEPT ![phoneHash] = newLoan]
            /\ loansById' = [i \in DOMAIN loansById \cup {loanId} |->
                               IF i = loanId THEN newLoan ELSE loansById[i]]
            /\ loanHistory' = [loanHistory EXCEPT ![phoneHash] = Append(@, loanId)]
            /\ availableLiquidity' = availableLiquidity - principal
            /\ totalActiveLoanValue' = totalActiveLoanValue + principal
            /\ loanBalance' = loanBalance + collateral - principal
            /\ UNCHANGED <<loanTiers, tierCount, minCollateralRatio,
                           totalInterestEarned, loanBackends, loanPaused>>
       ELSE /\ last' = Result("requestLoan",
                              <<caller, phoneHash, principal, duration, tierId, collateral, settled>>,
                              err, 0)
            /\ UNCHANGED loanVars
    /\ UNCHANGED <<regVars, p2pVars, now>>

\* A call of function fn into MicroLoan by `sender` while a nonReentrant
\* function of MicroLoan is executing: the modifiers in the order they are
\* written.  receive() and addLiquidity() carry no nonReentrant.
NestedLoanCallError(sender, fn) ==
    IF fn \in {"requestLoan", "repayLoan", "processDefault"}
    THEN IF ~LoanAuthorized(sender) THEN "NotAuthorized"
         ELSE "ReentrancyGuardReentrantCall"
    ELSE IF fn = "removeLiquidity"
    THEN IF sender # Owner THEN "OwnableUnauthorizedAccount"
         ELSE "ReentrancyGuardReentrantCall"
    ELSE IF fn = "addLiquidity"
    THEN IF sender # Owner THEN "OwnableUnauthorizedAccount" ELSE "ok"
    ELSE "ok"   \* receive()

\* requestLoan whose disbursement runs code of the borrower's wallet: while
\* the call that hands over the principal is in flight, the wallet calls fn
\* of MicroLoan with `value` of the ether it just received, and then returns
\* success.  The whole is one transaction.
RequestLoanReentered(caller, phoneHash, principal, duration, tierId, collateral, fn, value) ==
    LET err == RequestLoanError(caller, phoneHash, principal, duration, tierId,
                                collateral, TRUE)
        tier == TierOf(tierId)
        interest == LoanInterest(principal, tier.interestRateBps, duration)
        loanId == totalLoansIssued
        newLoan == [loanId       |-> loanId,
                    principal    |-> principal,
                    collateral   |-> collateral,
                    interestRate |-> tier.interestRateBps,
                    startTime    |-> now,
                    duration     |-> duration,
                    totalDue     |-> principal + interest,
                    repaidAmount |-> 0,
                    status       |-> "Active"]
        borrowerWallet == getWallet(phoneHash)
        nested == NestedLoanCallError(borrowerWallet, fn)
        \* availableLiquidity += msg.value, in receive() and addLiquidity()
        credited == IF nested = "ok" THEN value ELSE 0
    IN
    /\ err = "ok"
    /\ totalLoansIssued < MaxLoans
    /\ value <= principal
    /\ last' = Paid("requestLoan.reentered",
                    <<caller, phoneHash, principal, duration, tierId, collateral,
                      fn, value, nested>>,
                    "ok", principal, borrowerWallet)
    /\ totalLoansIssued' = totalLoansIssued + 1
    /\ loans' = [loans EXCEPT ![phoneHash] = newLoan]
    /\ loansById' = [i \in DOMAIN loansById \cup {loanId} |->
                       IF i = loanId THEN newLoan ELSE loansById[i]]
    /\ loanHistory' = [loanHistory EXCEPT ![phoneHash] = Append(@, loanId)]
    /\ availableLiquidity' = availableLiquidity - principal + credited
    /\ totalActiveLoanValue' = totalActiveLoanValue + principal
    /\ loanBalance' = loanBalance + collateral - principal + credited
    /\ UNCHANGED <<loanTiers, tierCount, minCollateralRatio, totalInterestEarned,
                   loanBackends, loanPaused, regVars, p2pVars, now>>

\* uint256 returnAmount = loan.collateral + (msg.value - remainingDue)
ReturnAmountCollateralOnly(collateral, payment, remainingDue) == collateral
ReturnAmount(collateral, payment, remainingDue) ==
    collateral + (payment - remainingDue)

\* A faulty variant of RepayLoanError: without the check for an active loan.
RepayLoanErrorNoActiveCheck(caller, phoneHash, payment, settled) ==
    LET loan == loans[phoneHash]
        remainingDue == loan.totalDue - loan.repaidAmount
    IN
    IF ~LoanAuthorized(caller) THEN "NotAuthorized"
    ELSE IF payment >= remainingDue
            /\ (~settled \/ loanBalance + payment <
                              ReturnAmount(loan.collateral, payment, remainingDue))
         THEN "TransferFailed"
    ELSE "ok"

\* loan.repaidAmount += msg.value
PartlyRepaidAndClosed(loan, payment) ==
    [loan EXCEPT !.repaidAmount = loan.repaidAmount + payment, !.status = "Repaid"]
PartlyRepaid(loan, payment) ==
    [loan EXCEPT !.repaidAmount = loan.repaidAmount + payment]

\* A faulty variant of the checks of repayLoan: a Defaulted loan can still
\* be repaid.
RepayLoanErrorDefaulted(caller, phoneHash, payment, settled) ==
    LET loan == loans[phoneHash]
        remainingDue == loan.totalDue - loan.repaidAmount
    IN
    IF ~LoanAuthorized(caller) THEN "NotAuthorized"
    ELSE IF loan.status \notin {"Active", "Defaulted"} THEN "NoActiveLoan"
    ELSE IF payment >= remainingDue
            /\ (~settled \/ loanBalance + payment <
                              ReturnAmount(loan.collateral, payment, remainingDue))
         THEN "TransferFailed"
    ELSE "ok"

\* The revert of repayLoan, "ok" when it goes through; `payment` is msg.value.
RepayLoanError(caller, phoneHash, payment, settled) ==
    LET loan == loans[phoneHash]
        remainingDue == loan.totalDue - loan.repaidAmount
    IN
    IF ~LoanAuthorized(caller) THEN "NotAuthorized"
    ELSE IF loan.status # "Active" THEN "NoActiveLoan"
    ELSE IF payment >= remainingDue
            /\ (~settled \/ loanBalance + payment <
                              ReturnAmount(loan.collateral, payment, remainingDue))
         THEN "TransferFailed"
    ELSE "ok"

RepayLoan(caller, phoneHash, payment, settled) ==
    LET err == RepayLoanError(caller, phoneHash, payment, settled)
        loan == loans[phoneHash]
        remainingDue == loan.totalDue - loan.repaidAmount
        returnAmount == ReturnAmount(loan.collateral, payment, remainingDue)
        repaid == [loan EXCEPT !.repaidAmount = loan.totalDue, !.status = "Repaid"]
        partly == PartlyRepaid(loan, payment)
    IN
    /\ IF err # "ok"
       THEN /\ last' = Result("repayLoan",
                              <<caller, phoneHash, payment, settled>>,
                              err, 0)
            /\ UNCHANGED loanVars
       ELSE IF payment >= remainingDue
       THEN \* full repayment
            /\ last' = Paid("repayLoan", <<caller, phoneHash, payment, settled>>,
                            err, returnAmount, getWallet(phoneHash))
            /\ loans' = [loans EXCEPT ![phoneHash] = repaid]
            /\ loansById' = [loansById EXCEPT ![loan.loanId] = repaid]
            /\ totalInterestEarned' =
                 totalInterestEarned + (loan.totalDue - loan.principal)
            /\ availableLiquidity' = availableLiquidity + loan.totalDue
            /\ totalActiveLoanValue' = totalActiveLoanValue - loan.principal
            /\ loanBalance' = loanBalance + payment - returnAmount
            /\ UNCHANGED <<loanHistory, loanTiers, tierCount, minCollateralRatio,
                           totalLoansIssued, loanBackends, loanPaused>>
       ELSE \* partial repayment
            /\ last' = Result("repayLoan",
                              <<caller, phoneHash, payment, settled>>,
                              err, 0)
            /\ loans' = [loans EXCEPT ![phoneHash] = partly]
            /\ loansById' = [loansById EXCEPT ![loan.loanId] = partly]
            /\ availableLiquidity' = availableLiquidity + payment
            /\ loanBalance' = loanBalance + payment
            /\ UNCHANGED <<loanHistory, loanTiers, tierCount, minCollateralRatio,
                           totalLoansIssued, totalActiveLoanValue,
                           totalInterestEarned, loanBackends, loanPaused>>
    /\ UNCHANGED <<regVars, p2pVars, now>>

\* A faulty variant of ProcessDefaultError: a loan counts as overdue at
\* startTime + duration already.
ProcessDefaultErrorAtDue(caller, phoneHash) ==
    LET loan == loans[phoneHash] IN
    IF ~LoanAuthorized(caller) THEN "NotAuthorized"
    ELSE IF loan.status # "Active" THEN "NoActiveLoan"
    ELSE IF now < loan.startTime + loan.duration THEN "LoanNotDue"
    ELSE IF loan.principal < loan.repaidAmount
            \/ totalActiveLoanValue < loan.principal - loan.repaidAmount
         THEN "Panic"
    ELSE "ok"

\* The revert of processDefault, "ok" when it goes through.  The subtractions
\* loan.principal - loan.repaidAmount and totalActiveLoanValue -= ... are
\* checked arithmetic: an underflow panics and reverts the call.
ProcessDefaultError(caller, phoneHash) ==
    LET loan == loans[phoneHash] IN
    IF ~LoanAuthorized(caller) THEN "NotAuthorized"
    ELSE IF loan.status # "Active" THEN "NoActiveLoan"
    ELSE IF now <= loan.startTime + loan.duration THEN "LoanNotDue"
    ELSE IF loan.principal < loan.repaidAmount
            \/ totalActiveLoanValue < loan.principal - loan.repaidAmount
         THEN "Panic"
    ELSE "ok"

ProcessDefault(caller, phoneHash) ==
    LET err == ProcessDefaultError(caller, phoneHash)
        loan == loans[phoneHash]
        defaulted == [loan EXCEPT !.status = "Defaulted"]
        collateralSeized == loan.collateral
    IN
    /\ last' = Result("processDefault", <<caller, phoneHash>>, err, 0)
    /\ IF err = "ok"
       THEN /\ loans' = [loans EXCEPT ![phoneHash] = defaulted]
            /\ loansById' = [loansById EXCEPT ![loan.loanId] = defaulted]
            /\ availableLiquidity' = availableLiquidity + collateralSeized
            /\ totalActiveLoanValue' =
                 totalActiveLoanValue - (loan.principal - loan.repaidAmount)
            /\ UNCHANGED <<loanHistory, loanTiers, tierCount, minCollateralRatio,
                           totalLoansIssued, totalInterestEarned, loanBackends,
                           loanPaused, loanBalance>>
       ELSE UNCHANGED loanVars
    /\ UNCHANGED <<regVars, p2pVars, now>>

\* getLoanDetails(phoneHash)
getLoanDetails(phoneHash) ==
    LET loan == loans[phoneHash] IN
    [loanId |-> loan.loanId, principal |-> loan.principal,
     collateral |-> loan.collateral, totalDue |-> loan.totalDue,
     repaidAmount |-> loan.repaidAmount,
     remainingDue |-> loan.totalDue - loan.repaidAmount,
     dueDate |-> loan.startTime + loan.duration, status |-> loan.status]

\* checkEligibility(phoneHash): (eligible, reason)
\* A faulty variant of checkEligibility: the pool is looked at before the
\* loan of the identity.
checkEligibilityLiquidityFirst(phoneHash) ==
    IF ~checkRegistration(phoneHash) THEN <<FALSE, "Not registered">>
    ELSE IF availableLiquidity = 0 THEN <<FALSE, "No liquidity available">>
    ELSE IF loans[phoneHash].status = "Active" THEN <<FALSE, "Active loan exists">>
    ELSE <<TRUE, "Eligible for loan">>

checkEligibility(phoneHash) ==
    IF ~checkRegistration(phoneHash) THEN <<FALSE, "Not registered">>
    ELSE IF loans[phoneHash].status = "Active" THEN <<FALSE, "Active loan exists">>
    ELSE IF availableLiquidity = 0 THEN <<FALSE, "No liquidity available">>
    ELSE <<TRUE, "Eligible for loan">>

\* A faulty variant of calculateLoanQuote: the interest is rounded up.
calculateLoanQuoteCeil(principal, duration, tierId) ==
    LET tier == TierOf(tierId) IN
    IF \/ ~tier.active
       \/ principal < tier.minAmount
       \/ principal > tier.maxAmount
       \/ duration < tier.minDuration
       \/ duration > tier.maxDuration
    THEN [requiredCollateral |-> 0, interest |-> 0, totalDue |-> 0,
          monthlyEquivalentRate |-> 0, valid |-> FALSE]
    ELSE [requiredCollateral |-> RequiredCollateral(principal),
          interest |-> LoanInterestCeil(principal, tier.interestRateBps, duration),
          totalDue |-> principal +
                       LoanInterestCeil(principal, tier.interestRateBps, duration),
          monthlyEquivalentRate |->
              (tier.interestRateBps * (30 * DAY)) \div (365 * DAY),
          valid |-> TRUE]

\* calculateLoanQuote(principal, duration, tierId)
calculateLoanQuote(principal, duration, tierId) ==
    LET tier == TierOf(tierId) IN
    IF \/ ~tier.active
       \/ principal < tier.minAmount
       \/ principal > tier.maxAmount
       \/ duration < tier.minDuration
       \/ duration > tier.maxDuration
    THEN [requiredCollateral |-> 0, interest |-> 0, totalDue |-> 0,
          monthlyEquivalentRate |-> 0, valid |-> FALSE]
    ELSE [requiredCollateral |-> RequiredCollateral(principal),
          interest |-> LoanInterest(principal, tier.interestRateBps, duration),
          totalDue |-> principal +
                       LoanInterest(principal, tier.interestRateBps, duration),
          monthlyEquivalentRate |->
              (tier.interestRateBps * (30 * DAY)) \div (365 * DAY),
          valid |-> TRUE]

\* getLoanHistory(phoneHash, limit): newest first
getLoanHistory(phoneHash, limit) ==
    LET history == loanHistory[phoneHash]
        count == Len(history)
    IN IF count = 0 THEN << >>
       ELSE LET resultCount == IF count < limit THEN count ELSE limit IN
            [i \in 1 .. resultCount |-> loansById[history[count - (i - 1)]]]

AddLiquidity(caller, value) ==
    LET err == IF caller # Owner THEN "OwnableUnauthorizedAccount" ELSE "ok" IN
    /\ err = "ok" => availableLiquidity + value <= MaxPool
    /\ last' = Result("addLiquidity", <<caller, value>>, err, 0)
    /\ IF err = "ok"
       THEN /\ availableLiquidity' = availableLiquidity + value
            /\ loanBalance' = loanBalance + value
       ELSE UNCHANGED <<availableLiquidity, loanBalance>>
    /\ UNCHANGED <<loans, loanHistory, loansById, loanTiers, tierCount,
                   minCollateralRatio, totalLoansIssued, totalActiveLoanValue,
                   totalInterestEarned, loanBackends, loanPaused, regVars,
                   p2pVars, now>>

RemoveLiquidity(caller, amount, settled) ==
    LET err == IF caller # Owner THEN "OwnableUnauthorizedAccount"
               ELSE IF ~(amount <= availableLiquidity) THEN "Insufficient liquidity"
               ELSE IF ~settled \/ loanBalance < amount THEN "Withdrawal failed"
               ELSE "ok"
    IN
    /\ last' = IF err = "ok"
               THEN Paid("removeLiquidity", <<caller, amount, settled>>,
                         err, amount, caller)
               ELSE Result("removeLiquidity", <<caller, amount, settled>>, err, 0)
    /\ IF err = "ok"
       THEN /\ availableLiquidity' = availableLiquidity - amount
            /\ loanBalance' = loanBalance - amount
       ELSE UNCHANGED <<availableLiquidity, loanBalance>>
    /\ UNCHANGED <<loans, loanHistory, loansById, loanTiers, tierCount,
                   minCollateralRatio, totalLoansIssued, totalActiveLoanValue,
                   totalInterestEarned, loanBackends, loanPaused, regVars,
                   p2pVars, now>>

UpdateTier(caller, tierId, tier) ==
    LET err == IF caller # Owner THEN "OwnableUnauthorizedAccount"
               ELSE IF ~(tierId < tierCount \/ tierId = tierCount) THEN "Invalid tier"
               ELSE "ok"
    IN
    /\ last' = Result("updateTier", <<caller, tierId, tier>>, err, 0)
    /\ IF err = "ok"
       THEN /\ tierCount' = IF tierId = tierCount THEN tierCount + 1 ELSE tierCount
            /\ loanTiers' = [i \in DOMAIN loanTiers \cup {tierId} |->
                               IF i = tierId THEN tier ELSE loanTiers[i]]
       ELSE UNCHANGED <<tierCount, loanTiers>>
    /\ UNCHANGED <<loans, loanHistory, loansById, minCollateralRatio,
                   totalLoansIssued, totalActiveLoanValue, availableLiquidity,
                   totalInterestEarned, loanBackends, loanPaused, loanBalance,
                   regVars, p2pVars, now>>

\* A faulty variant of updateCollateralRatio: the upper bound is not checked.
UpdateCollateralRatioNoCeiling(caller, newRatio) ==
    LET err == IF caller # Owner THEN "OwnableUnauthorizedAccount"
               ELSE IF ~(newRatio >= 10000) THEN "Ratio must be >= 100%"
               ELSE "ok"
    IN
    /\ last' = Result("updateCollateralRatio", <<caller, newRatio>>, err, 0)
    /\ minCollateralRatio' = IF err = "ok" THEN newRatio ELSE minCollateralRatio
    /\ UNCHANGED <<loans, loanHistory, loansById, loanTiers, tierCount,
                   totalLoansIssued, totalActiveLoanValue, availableLiquidity,
                   totalInterestEarned, loanBackends, loanPaused, loanBalance,
                   regVars, p2pVars, now>>

\* A faulty variant of updateCollateralRatio: the lower bound is not checked.
UpdateCollateralRatioNoFloor(caller, newRatio) ==
    LET err == IF caller # Owner THEN "OwnableUnauthorizedAccount"
               ELSE IF ~(newRatio <= 30000) THEN "Ratio must be <= 300%"
               ELSE "ok"
    IN
    /\ last' = Result("updateCollateralRatio", <<caller, newRatio>>, err, 0)
    /\ minCollateralRatio' = IF err = "ok" THEN newRatio ELSE minCollateralRatio
    /\ UNCHANGED <<loans, loanHistory, loansById, loanTiers, tierCount,
                   totalLoansIssued, totalActiveLoanValue, availableLiquidity,
                   totalInterestEarned, loanBackends, loanPaused, loanBalance,
                   regVars, p2pVars, now>>

UpdateCollateralRatio(caller, newRatio) ==
    LET err == IF caller # Owner THEN "OwnableUnauthorizedAccount"
               ELSE IF ~(newRatio >= 10000) THEN "Ratio must be >= 100%"
               ELSE IF ~(newRatio <= 30000) THEN "Ratio must be <= 300%"
               ELSE "ok"
    IN
    /\ last' = Result("updateCollateralRatio", <<caller, newRatio>>, err, 0)
    /\ minCollateralRatio' = IF err = "ok" THEN newRatio ELSE minCollateralRatio
    /\ UNCHANGED <<loans, loanHistory, loansById, loanTiers, tierCount,
                   totalLoansIssued, totalActiveLoanValue, availableLiquidity,
                   totalInterestEarned, loanBackends, loanPaused, loanBalance,
                   regVars, p2pVars, now>>

\* A faulty variant of addAuthorizedBackend: guarded by onlyAuthorized in
\* place of onlyOwner, so that a backend can authorize further accounts.
LoanAddAuthorizedBackendByBackend(caller, backend) ==
    LET err == IF ~LoanAuthorized(caller) THEN "NotAuthorized" ELSE "ok" IN
    /\ last' = Result("loan.addAuthorizedBackend", <<caller, backend>>, err, 0)
    /\ loanBackends' = IF err = "ok" THEN loanBackends \cup {backend} ELSE loanBackends
    /\ UNCHANGED <<loans, loanHistory, loansById, loanTiers, tierCount,
                   minCollateralRatio, totalLoansIssued, totalActiveLoanValue,
                   availableLiquidity, totalInterestEarned, loanPaused,
                   loanBalance, regVars, p2pVars, now>>

LoanAddAuthorizedBackend(caller, backend) ==
    LET err == IF caller # Owner THEN "OwnableUnauthorizedAccount" ELSE "ok" IN
    /\ last' = Result("loan.addAuthorizedBackend", <<caller, backend>>, err, 0)
    /\ loanBackends' = IF err = "ok" THEN loanBackends \cup {backend} ELSE loanBackends
    /\ UNCHANGED <<loans, loanHistory, loansById, loanTiers, tierCount,
                   minCollateralRatio, totalLoansIssued, totalActiveLoanValue,
                   availableLiquidity, totalInterestEarned, loanPaused,
                   loanBalance, regVars, p2pVars, now>>

LoanRemoveAuthorizedBackend(caller, backend) ==
    LET err == IF caller # Owner THEN "OwnableUnauthorizedAccount" ELSE "ok" IN
    /\ last' = Result("loan.removeAuthorizedBackend", <<caller, backend>>,
                      err, 0)
    /\ loanBackends' = IF err = "ok" THEN loanBackends \ {backend} ELSE loanBackends
    /\ UNCHANGED <<loans, loanHistory, loansById, loanTiers, tierCount,
                   minCollateralRatio, totalLoansIssued, totalActiveLoanValue,
                   availableLiquidity, totalInterestEarned, loanPaused,
                   loanBalance, regVars, p2pVars, now>>

\* pause(): onlyOwner, then Pausable._pause() (whenNotPaused)
LoanPause(caller) ==
    LET err == IF caller # Owner THEN "OwnableUnauthorizedAccount"
               ELSE IF loanPaused THEN "EnforcedPause"
               ELSE "ok"
    IN
    /\ last' = Result("loan.pause", <<caller>>, err, 0)
    /\ loanPaused' = IF err = "ok" THEN TRUE ELSE loanPaused
    /\ UNCHANGED <<loans, loanHistory, loansById, loanTiers, tierCount,
                   minCollateralRatio, totalLoansIssued, totalActiveLoanValue,
                   availableLiquidity, totalInterestEarned, loanBackends,
                   loanBalance, regVars, p2pVars, now>>

\* unpause(): onlyOwner, then Pausable._unpause() (whenPaused)
LoanUnpause(caller) ==
    LET err == IF caller # Owner THEN "OwnableUnauthorizedAccount"
               ELSE IF ~loanPaused THEN "ExpectedPause"
               ELSE "ok"
    IN
    /\ last' = Result("loan.unpause", <<caller>>, err, 0)
    /\ loanPaused' = IF err = "ok" THEN FALSE ELSE loanPaused
    /\ UNCHANGED <<loans, loanHistory, loansById, loanTiers, tierCount,
                   minCollateralRatio, totalLoansIssued, totalActiveLoanValue,
                   availableLiquidity, totalInterestEarned, loanBackends,
                   loanBalance, regVars, p2pVars, now>>

\* receive() external payable { availableLiquidity += msg.value; }
LoanReceive(value) ==
    /\ availableLiquidity + value <= MaxPool
    /\ last' = Result("loan.receive", <<value>>, "ok", 0)
    /\ availableLiquidity' = availableLiquidity + value
    /\ loanBalance' = loanBalance + value
    /\ UNCHANGED <<loans, loanHistory, loansById, loanTiers, tierCount,
                   minCollateralRatio, totalLoansIssued, totalActiveLoanValue,
                   totalInterestEarned, loanBackends, loanPaused, regVars,
                   p2pVars, now>>

-----------------------------------------------------------------------------
(* The state after the three constructors *)

Init ==
    /\ phoneToWallet = [ph \in PhoneHashes |-> ZeroAddress]
    /\ walletToPhone = [a \in Addresses |-> ZeroHash]
    /\ phoneToPinHash = [ph \in PhoneHashes |-> ZeroHash]
    /\ isRegistered = [ph \in PhoneHashes |-> FALSE]
    /\ regBackends = {Owner}
    /\ totalUsers = 0
    /\ transactionHistory = [ph \in PhoneHashes |-> << >>]
    /\ transactionByHash = << >>
    /\ transferFeeBps = 50
    /\ minTransferAmount = 1
    /\ maxTransferAmount = 100000
    /\ dailyTransferLimit = 500000
    /\ dailyTransfers = [ph \in PhoneHashes |-> [d \in Days |-> 0]]
    /\ accumulatedFees = 0
    /\ totalTransactions = 0
    /\ totalVolume = 0
    /\ p2pBackends = {Owner}
    /\ p2pPaused = FALSE
    /\ p2pBalance = 0
    /\ loans = [ph \in PhoneHashes |-> NoLoan]
    /\ loanHistory = [ph \in PhoneHashes |-> << >>]
    /\ loansById = << >>
    /\ loanTiers = DefaultTiers
    /\ tierCount = 3
    /\ minCollateralRatio = 15000
    /\ totalLoansIssued = 0
    /\ totalActiveLoanValue = 0
    /\ availableLiquidity = 0
    /\ totalInterestEarned = 0
    /\ loanBackends = {Owner}
    /\ loanPaused = FALSE
    /\ loanBalance = 0
    /\ now = 0
    /\ last = Result("constructor", << >>, "ok", 0)

-----------------------------------------------------------------------------
(* The registry on its own *)

\* The calls of a run: every identity with every owner by the owner of the
\* contract, some by the backend, one with a zero PIN hash and one by a stranger.
RegisterCalls ==
    ({Owner} \X PhoneHashes \X (Wallets \cup {ZeroAddress}) \X {"pinA"})
    \cup ({Backend} \X {"p1", "p2"} \X Wallets \X {"pinB"})
    \cup {<<Owner, "p1", "w1", ZeroHash>>, <<Stranger, "p1", "w1", "pinA">>}

UpdatePinCalls ==
    ({Owner} \X PhoneHashes \X {"pinB", ZeroHash})
    \cup {<<Stranger, "p1", "pinB">>}

UpdateWalletCalls ==
    ({Owner} \X PhoneHashes \X (Wallets \cup {ZeroAddress}))
    \cup {<<Stranger, "p1", "w2">>}

RegistryNext ==
    \/ \E c \in RegisterCalls : RegisterWallet(c[1], c[2], c[3], c[4])
    \/ \E c \in UpdatePinCalls : UpdatePin(c[1], c[2], c[3])
    \/ \E c \in UpdateWalletCalls : UpdateWallet(c[1], c[2], c[3])
    \/ \E c \in {Owner, Stranger}, b \in {Backend, ZeroAddress} :
          RegAddAuthorizedBackend(c, b)
    \/ \E c \in {Owner, Stranger} : RegRemoveAuthorizedBackend(c, Backend)

SpecRegistry == Init /\ [][RegistryNext]_vars

-----------------------------------------------------------------------------
(* Transfers between the identities "p1" and "p2" *)

Parties == {"p1", "p2"}
WalletOf(ph) == IF ph = "p1" THEN "w1" ELSE "w2"
TransferValues == {0, 250, 100001}
FeeChoices == {500, 501}
LimitChoices == {<<1, 100000, 500>>, <<250, 250, 500>>}

\* The calls of transfer that a run makes: <<caller, from, to, value, settled>>
TransferCalls ==
    ({Owner} \X Parties \X Parties \X TransferValues \X {TRUE})
    \cup {<<Owner, "p1", "p2", 250, FALSE>>, <<Stranger, "p1", "p2", 250, TRUE>>}

TransferNext ==
    \/ \E ph \in Parties : RegisterWallet(Owner, ph, WalletOf(ph), "pinA")
    \/ \E c \in TransferCalls : Transfer(c[1], c[2], c[3], c[4], c[5])
    \/ \E bps \in FeeChoices : UpdateFee(Owner, bps)
    \/ \E l \in LimitChoices : UpdateLimits(Owner, l[1], l[2], l[3])
    \/ P2PPause(Owner)
    \/ P2PUnpause(Owner)
    \/ \E t \in 0 .. MaxNow : Tick(t)

SpecTransfer == Init /\ [][TransferNext]_vars

-----------------------------------------------------------------------------
(* Loans to the identities "p1" and "p2" *)

Payments == {500, 501}
Instants == {7 * DAY + 1}
RaisedTier0 ==
    [minAmount |-> 10, maxAmount |-> 1000, interestRateBps |-> 3000,
     minDuration |-> 7 * DAY, maxDuration |-> 30 * DAY, active |-> TRUE]

\* The calls of requestLoan that a run makes, all by the owner:
\* <<principal, duration, tierId, collateral, settled>>
LoanCalls ==
    { <<999, 7 * DAY, 0, 1498, TRUE>>,       \* goes through
      <<999, 7 * DAY, 0, 1498, FALSE>>,      \* the wallet refuses the principal
      <<999, 7 * DAY, 0, 750, TRUE>>,        \* too little collateral
      <<9, 7 * DAY - 1, 0, 0, TRUE>>,        \* too small, too short, no collateral
      <<999, 30 * DAY + 1, 0, 0, TRUE>>,     \* too long, no collateral
      <<1001, 30 * DAY + 1, 3, 749, TRUE>> } \* no such tier, too large, too long

LoanNext ==
    \/ \E ph \in Parties : RegisterWallet(Owner, ph, WalletOf(ph), "pinA")
    \/ \E ph \in Parties, c \in LoanCalls :
          RequestLoan(Owner, ph, c[1], c[2], c[3], c[4], c[5])
    \/ \E ph \in Parties, pay \in Payments : RepayLoan(Owner, ph, pay, TRUE)
    \/ \E ph \in Parties : RepayLoan(Owner, ph, 501, FALSE)
    \/ \E ph \in Parties : ProcessDefault(Owner, ph)
    \/ AddLiquidity(Owner, 2000)
    \/ \E t \in Instants : Tick(t)

SpecLoan == Init /\ [][LoanNext]_vars

-----------------------------------------------------------------------------
(* Loans to "p1" while the owner changes tier 0 *)

ClosedTier0 == [RaisedTier0 EXCEPT !.active = FALSE]

LoanTierNext ==
    \/ RegisterWallet(Owner, "p1", "w1", "pinA")
    \/ \E c \in LoanCalls : RequestLoan(Owner, "p1", c[1], c[2], c[3], c[4], c[5])
    \/ \E pay \in Payments : RepayLoan(Owner, "p1", pay, TRUE)
    \/ ProcessDefault(Owner, "p1")
    \/ AddLiquidity(Owner, 2000)
    \/ \E tier \in {RaisedTier0, ClosedTier0} : UpdateTier(Owner, 0, tier)
    \/ \E t \in Instants : Tick(t)

SpecLoanTier == Init /\ [][LoanTierNext]_vars

-----------------------------------------------------------------------------
(* A loan to "p1" around the time it falls due *)

DueInstants == {7 * DAY, 7 * DAY + 1}

DefaultNext ==
    \/ RegisterWallet(Owner, "p1", "w1", "pinA")
    \/ \E c \in LoanCalls : RequestLoan(Owner, "p1", c[1], c[2], c[3], c[4], c[5])
    \/ \E pay \in Payments : RepayLoan(Owner, "p1", pay, TRUE)
    \/ \E c \in {Owner, Stranger} : ProcessDefault(c, "p1")
    \/ AddLiquidity(Owner, 2000)
    \/ \E t \in DueInstants : Tick(t)

SpecDefault == Init /\ [][DefaultNext]_vars

-----------------------------------------------------------------------------
(* Loans to "p1" while its wallet is replaced *)

DisburseNext ==
    \/ RegisterWallet(Owner, "p1", "w1", "pinA")
    \/ \E w \in Wallets : UpdateWallet(Owner, "p1", w)
    \/ \E c \in LoanCalls : RequestLoan(Owner, "p1", c[1], c[2], c[3], c[4], c[5])
    \/ \E pay \in Payments : RepayLoan(Owner, "p1", pay, TRUE)
    \/ AddLiquidity(Owner, 2000)

SpecDisburse == Init /\ [][DisburseNext]_vars

-----------------------------------------------------------------------------
(* Loans to "p1" whose wallet is a contract that calls back *)

NestedCalls == {"requestLoan", "repayLoan", "processDefault", "removeLiquidity",
                "addLiquidity", "receive"}

ReentryNext ==
    \/ RegisterWallet(Owner, "p1", "w1", "pinA")
    \/ \E fn \in NestedCalls :
          RequestLoanReentered(Owner, "p1", 999, 7 * DAY, 0, 1498, fn, 1)
    \/ \E pay \in Payments : RepayLoan(Owner, "p1", pay, TRUE)
    \/ AddLiquidity(Owner, 2000)

SpecReentry == Init /\ [][ReentryNext]_vars

-----------------------------------------------------------------------------
(* Calls by accounts that the owner authorizes and removes again *)

Outsiders == {Backend, Stranger}

AccessNext ==
    \/ RegAddAuthorizedBackend(Owner, Backend)
    \/ RegRemoveAuthorizedBackend(Owner, Backend)
    \/ P2PAddAuthorizedBackend(Owner, Backend)
    \/ P2PRemoveAuthorizedBackend(Owner, Backend)
    \/ LoanAddAuthorizedBackend(Owner, Backend)
    \/ LoanRemoveAuthorizedBackend(Owner, Backend)
    \/ AddLiquidity(Owner, 2000)
    \/ \E c \in Outsiders, ph \in Parties :
          RegisterWallet(c, ph, WalletOf(ph), "pinA")
    \/ \E c \in Outsiders : UpdatePin(c, "p1", "pinB")
    \/ \E c \in Outsiders : UpdateWallet(c, "p2", "w2")
    \/ \E c \in Outsiders : Transfer(c, "p1", "p2", 250, TRUE)
    \/ \E c \in Outsiders : RequestLoan(c, "p1", 999, 7 * DAY, 0, 1498, TRUE)
    \/ \E c \in Outsiders : RepayLoan(c, "p1", 501, TRUE)
    \/ \E c \in Outsiders : ProcessDefault(c, "p1")

SpecAccess == Init /\ [][AccessNext]_vars

-----------------------------------------------------------------------------
(* The owner's functions, called by the owner and by others *)

Admins == {Owner, Backend}

AdminNext ==
    \/ \E c \in Callers : RegAddAuthorizedBackend(c, Backend)
    \/ \E c \in Admins : RegRemoveAuthorizedBackend(c, Backend)
    \/ \E c \in Admins : P2PAddAuthorizedBackend(c, Backend)
    \/ \E c \in Admins : P2PRemoveAuthorizedBackend(c, Backend)
    \/ \E c \in Callers, b \in Outsiders : LoanAddAuthorizedBackend(c, b)
    \/ \E c \in Admins : LoanRemoveAuthorizedBackend(c, Backend)
    \/ \E c \in Admins : UpdateFee(c, 500)
    \/ \E c \in Admins : UpdateLimits(c, 250, 251, 500)
    \/ \E c \in Admins : WithdrawFees(c, c, TRUE)
    \/ \E c \in Admins : P2PPause(c)
    \/ \E c \in Admins : P2PUnpause(c)
    \/ \E c \in Admins : LoanPause(c)
    \/ \E c \in Admins : LoanUnpause(c)
    \/ \E c \in Admins : AddLiquidity(c, 2000)
    \/ \E c \in Admins : RemoveLiquidity(c, 2000, TRUE)
    \/ \E c \in Admins : UpdateTier(c, 0, RaisedTier0)
    \/ \E c \in Admins : UpdateCollateralRatio(c, 20000)

SpecAdmin == Init /\ [][AdminNext]_vars

-----------------------------------------------------------------------------
(* Transfers while P2PTransfer is paused and after *)

\* <<caller, from, to, value, settled>>
PausedTransferCalls ==
    { <<Owner, "p1", "p2", 250, TRUE>>,     \* goes through when not paused
      <<Backend, "p2", "p1", 250, TRUE>>,   \* by a backend, once authorized
      <<Owner, "p1", "p2", 0, TRUE>>,       \* too small
      <<Owner, "p1", "p1", 250, TRUE>>,     \* to oneself
      <<Owner, "p1", "p2", 250, FALSE>> }   \* the recipient refuses the ether

PauseNext ==
    \/ \E ph \in Parties : RegisterWallet(Owner, ph, WalletOf(ph), "pinA")
    \/ P2PAddAuthorizedBackend(Owner, Backend)
    \/ \E c \in PausedTransferCalls : Transfer(c[1], c[2], c[3], c[4], c[5])
    \/ \E c \in Admins : P2PPause(c)
    \/ \E c \in Admins : P2PUnpause(c)

SpecPause == Init /\ [][PauseNext]_vars

-----------------------------------------------------------------------------
(* Loans to "p1" while MicroLoan is paused and after *)

LoanPauseNext ==
    \/ RegisterWallet(Owner, "p1", "w1", "pinA")
    \/ AddLiquidity(Owner, 2000)
    \/ RequestLoan(Owner, "p1", 999, 7 * DAY, 0, 1498, TRUE)
    \/ \E pay \in Payments : RepayLoan(Owner, "p1", pay, TRUE)
    \/ ProcessDefault(Owner, "p1")
    \/ LoanPause(Owner)
    \/ LoanUnpause(Owner)
    \/ \E t \in Instants : Tick(t)

SpecLoanPause == Init /\ [][LoanPauseNext]_vars

-----------------------------------------------------------------------------
(* Transfers and the withdrawal of their fees *)

FeeValues == {250, 10000}

FeesNext ==
    \/ \E ph \in Parties : RegisterWallet(Owner, ph, WalletOf(ph), "pinA")
    \/ \E v \in FeeValues, settled \in BOOLEAN :
          Transfer(Owner, "p1", "p2", v, settled)
    \/ \E c \in {Owner, Stranger}, settled \in BOOLEAN :
          WithdrawFees(c, "w1", settled)
    \/ UpdateFee(Owner, 500)

SpecFees == Init /\ [][FeesNext]_vars

-----------------------------------------------------------------------------
(* Transfers under the fee rates and limits that the owner sets *)

FeeRates == {0, 500, 501}
Limits == {<<250, 251, 500>>, <<250, 250, 500>>, <<251, 250, 500>>,
           <<0, 10000, 20000>>}

LimitsNext ==
    \/ \E ph \in Parties : RegisterWallet(Owner, ph, WalletOf(ph), "pinA")
    \/ \E v \in FeeValues : Transfer(Owner, "p1", "p2", v, TRUE)
    \/ \E bps \in FeeRates : UpdateFee(Owner, bps)
    \/ \E l \in Limits : UpdateLimits(Owner, l[1], l[2], l[3])

SpecLimits == Init /\ [][LimitsNext]_vars

-----------------------------------------------------------------------------
(* The pool and the collateral ratio under the owner's calls *)

Ratios == {9999, 10000, 30000, 30001}
Removals == {500, 1500}

RatioNext ==
    \/ RegisterWallet(Owner, "p1", "w1", "pinA")
    \/ AddLiquidity(Owner, 2000)
    \/ \E a \in Removals, settled \in BOOLEAN : RemoveLiquidity(Owner, a, settled)
    \/ \E r \in Ratios : UpdateCollateralRatio(Owner, r)
    \/ \E c \in {999, 2997} : RequestLoan(Owner, "p1", 999, 7 * DAY, 0, c, TRUE)

SpecRatio == Init /\ [][RatioNext]_vars

-----------------------------------------------------------------------------
(* A loan to "p1" and a pool that the owner fills and empties *)

EligibilityNext ==
    \/ RegisterWallet(Owner, "p1", "w1", "pinA")
    \/ AddLiquidity(Owner, 2000)
    \/ \E a \in {1001, 2000} : RemoveLiquidity(Owner, a, TRUE)
    \/ RequestLoan(Owner, "p1", 999, 7 * DAY, 0, 1498, TRUE)
    \/ \E pay \in Payments : RepayLoan(Owner, "p1", pay, TRUE)
    \/ ProcessDefault(Owner, "p1")
    \/ \E t \in Instants : Tick(t)

SpecEligibility == Init /\ [][EligibilityNext]_vars

-----------------------------------------------------------------------------
(* The USSD menu handler: the requests that carry the PIN of a flow *)

PhoneNumbers == {"+254700000001", "+254700000002"}
Pins == {"1234", "4321", "12a4"}
MenuFlows == {"2", "3", "4"}     \* Send Money, Request Loan, Repay Loan

\* hashPhoneNumber(phoneNumber): keccak256 of the normalized number and the
\* salt; the identities "p1" and "p2" stand for the two hashes.
hashPhoneNumber(phoneNumber) ==
    IF phoneNumber = "+254700000001" THEN "p1" ELSE "p2"

\* hashPin(phoneHash, pin): keccak256 of the phone hash and the PIN packed
\* together; a name stands for the hash of each pair.
hashPin(phoneHash, pin) ==
    CASE phoneHash = "p1" /\ pin = "1234" -> "k(p1,1234)"
      [] phoneHash = "p1" /\ pin = "4321" -> "k(p1,4321)"
      [] phoneHash = "p1" /\ pin = "12a4" -> "k(p1,12a4)"
      [] phoneHash = "p2" /\ pin = "1234" -> "k(p2,1234)"
      [] phoneHash = "p2" /\ pin = "4321" -> "k(p2,4321)"
      [] OTHER -> "k(p2,12a4)"

\* pin.match(/^\d{4}$/), on the PINs of the model
PinFormatOk(pin) == pin \in {"1234", "4321"}

\* A faulty variant of blockchainService.verifyPin: every PIN is taken.
UssdPinAlwaysValid(phoneHash, pin) == phoneHash \in PhoneHashes

\* blockchainService.verifyPin(phoneHash, pin)
UssdPinValid(phoneHash, pin) == verifyPin(phoneHash, hashPin(phoneHash, pin))

\* handleUSSDRequest with the text of the PIN step of a flow: the handler
\* looks up the registration of the dialing phone and hands the request of a
\* phone that is not registered to handleRegistration, which sends none of
\* the commands of the flows.  `last` keeps the request and
\* with it the place the handler has come to; the handler runs one request
\* at a time.
UssdRequest(phoneNumber, flow, pin) ==
    /\ last' = Result("ussd.request", <<phoneNumber, flow, pin>>,
                      IF checkRegistration(hashPhoneNumber(phoneNumber))
                      THEN "ok" ELSE "handleRegistration",
                      0)
    /\ UNCHANGED <<regVars, p2pVars, loanVars, now>>

\* if (!pin.match(/^\d{4}$/)) return 'END Invalid PIN format.'
UssdPinFormat ==
    /\ last.op = "ussd.request" /\ last.err = "ok"
    /\ last' = Result("ussd.pinFormat", last.args,
                      IF PinFormatOk(last.args[3]) THEN "ok"
                      ELSE "END Invalid PIN format.",
                      0)
    /\ UNCHANGED <<regVars, p2pVars, loanVars, now>>

\* const pinValid = await blockchainService.verifyPin(phoneHash, pin);
\* if (!pinValid) return 'END Incorrect PIN. ...'
UssdVerifyPin ==
    /\ last.op = "ussd.pinFormat" /\ last.err = "ok"
    /\ last' = Result("ussd.verifyPin", last.args,
                      IF UssdPinValid(hashPhoneNumber(last.args[1]), last.args[3])
                      THEN "ok" ELSE "END Incorrect PIN.",
                      0)
    /\ UNCHANGED <<regVars, p2pVars, loanVars, now>>

\* The command of the flow, sent by the backend's account, here the owner's:
\* executeTransfer to the recipient of the session, requestLoan with the
\* terms of the session, repayLoan of what remains due.
UssdCommand ==
    LET phoneHash == hashPhoneNumber(last.args[1])
        flow == last.args[2]
    IN
    /\ last.op = "ussd.verifyPin" /\ last.err = "ok"
    /\ CASE flow = "2" ->
              \E to \in Parties : Transfer(Owner, phoneHash, to, 250, TRUE)
         [] flow = "3" ->
              RequestLoan(Owner, phoneHash, 999, 7 * DAY, 0, 1498, TRUE)
         [] OTHER ->
              RepayLoan(Owner, phoneHash,
                        loans[phoneHash].totalDue - loans[phoneHash].repaidAmount,
                        TRUE)

UssdNext ==
    \/ \E ph \in Parties :
          RegisterWallet(Owner, ph, WalletOf(ph), hashPin(ph, "1234"))
    \/ UpdatePin(Owner, "p1", hashPin("p1", "4321"))
    \/ AddLiquidity(Owner, 2000)
    \/ \E n \in PhoneNumbers, flow \in MenuFlows, pin \in Pins :
          UssdRequest(n, flow, pin)
    \/ UssdPinFormat
    \/ UssdVerifyPin
    \/ UssdCommand

SpecUssd == Init /\ [][UssdNext]_vars

-----------------------------------------------------------------------------
(* A loan to "p1" that is repaid in part, up to one unit short of its due *)

PartPayments == {500, 1000}

OverdueNext ==
    \/ RegisterWallet(Owner, "p1", "w1", "pinA")
    \/ AddLiquidity(Owner, 2000)
    \/ RequestLoan(Owner, "p1", 999, 7 * DAY, 0, 1498, TRUE)
    \/ \E pay \in PartPayments : RepayLoan(Owner, "p1", pay, TRUE)
    \/ \E c \in {Owner, Stranger} : ProcessDefault(c, "p1")
    \/ \E t \in Instants : Tick(t)

SpecOverdue == Init /\ [][OverdueNext]_vars

-----------------------------------------------------------------------------
(* Transfers on two days under a daily limit that the owner changes *)

DailyLimits == {400, 200}

DailyNext ==
    \/ \E ph \in Parties : RegisterWallet(Owner, ph, WalletOf(ph), "pinA")
    \/ \E to \in Parties : Transfer(Owner, "p1", to, 250, TRUE)
    \/ Transfer(Owner, "p2", "p1", 250, TRUE)
    \/ \E d \in DailyLimits : UpdateLimits(Owner, 1, 100000, d)
    \/ Tick(DAY)

SpecDaily == Init /\ [][DailyNext]_vars

-----------------------------------------------------------------------------
(* Fees, deposits and emergency withdrawals of P2PTransfer *)

MaxHeld == 200    \* deposits stop once P2PTransfer holds this much
StuckAmounts == {100, 101}

EmergencyNext ==
    \/ \E ph \in Parties : RegisterWallet(Owner, ph, WalletOf(ph), "pinA")
    \/ \E v \in FeeValues : Transfer(Owner, "p1", "p2", v, TRUE)
    \/ \E settled \in BOOLEAN : WithdrawFees(Owner, "w1", settled)
    \/ (p2pBalance < MaxHeld /\ P2PReceive(100))
    \/ \E c \in {Owner, Stranger}, a \in StuckAmounts, settled \in BOOLEAN :
          EmergencyWithdraw(c, "w1", a, settled)

SpecEmergency == Init /\ [][EmergencyNext]_vars

-----------------------------------------------------------------------------
(* Loans to "p1" while the owner changes the collateral ratio and tier 0 *)

CollateralRatios == {9999, 20000}
Collaterals == {998, 1498, 1998}

CollateralNext ==
    \/ RegisterWallet(Owner, "p1", "w1", "pinA")
    \/ AddLiquidity(Owner, 2000)
    \/ \E r \in CollateralRatios : UpdateCollateralRatio(Owner, r)
    \/ UpdateTier(Owner, 0, RaisedTier0)
    \/ \E c \in Collaterals : RequestLoan(Owner, "p1", 999, 7 * DAY, 0, c, TRUE)
    \/ RepayLoan(Owner, "p1", 500, TRUE)
    \/ ProcessDefault(Owner, "p1")
    \/ \E t \in Instants : Tick(t)

SpecCollateral == Init /\ [][CollateralNext]_vars

-----------------------------------------------------------------------------
(* Properties of the registry *)

RegisteredIds == {id \in PhoneHashes : isRegistered[id]}
BoundOwners == {getWallet(id) : id \in RegisteredIds}

\* C1: after any sequence of registerWallet and updateWallet calls the binding
\* of identities to owners is a bijection: getPhoneHash(getWallet(id)) = id
\* for every registered id, getWallet(getPhoneHash(o)) = o for every owner o
\* bound to an identity, and no owner is the owner of two registered
\* identities.
C1_Bijection ==
    /\ \A id \in RegisteredIds : getPhoneHash(getWallet(id)) = id
    /\ \A o \in BoundOwners : getWallet(getPhoneHash(o)) = o
    /\ \A id1, id2 \in RegisteredIds : getWallet(id1) = getWallet(id2) => id1 = id2

\* The same binding as long as the identity bytes32(0) is not registered.
C1_BijectionWithoutZeroHash ==
    ~isRegistered[ZeroHash] => C1_Bijection

-----------------------------------------------------------------------------
(* Properties of the transfer engine *)

\* The newest record of a transaction history.
NewestRecord(history) == history[Len(history)]

\* C4: a transfer of value v that goes through under rate feeBps records fee =
\* floor(v * feeBps / 10000) and pays out net = v - fee, so fee + net = v with
\* nothing lost to rounding; calculateFee(v) returns the same pair; and a step
\* that leaves feeBps alone leaves calculateFee(v) alone, so repeating the call
\* under the same feeBps gives the same fee and net.
C4_FeeExact ==
    [][/\ (last'.op = "transfer" /\ last'.err = "ok") =>
            LET v == last'.args[4]
                r == NewestRecord(transactionHistory'[last'.args[3]])
            IN /\ r.fee * 10000 <= v * transferFeeBps
               /\ v * transferFeeBps < (r.fee + 1) * 10000
               /\ r.amount = v - r.fee
               /\ r.fee + r.amount = v
               /\ last'.paid = r.amount
               /\ accumulatedFees' = accumulatedFees + r.fee
               /\ calculateFee(v) = <<r.fee, r.amount>>
               /\ NewestRecord(transactionHistory'[last'.args[2]]) = r
       /\ transferFeeBps' = transferFeeBps =>
            \A v \in TransferValues : calculateFee(v)' = calculateFee(v)]_vars

\* A transfer of 250 units at 50 bps: 1.25 truncates to a fee of 1, net 249;
\* and one at 500 bps: 12.5 truncates to 12, net 238.
C4_Witness ==
    /\ last.op = "transfer" /\ last.err = "ok"
    /\ \E ph \in Parties, i, j \in 1 .. MaxTx :
          /\ i <= Len(transactionHistory[ph]) /\ j <= Len(transactionHistory[ph])
          /\ transactionHistory[ph][i].fee = 1
          /\ transactionHistory[ph][i].amount = 249
          /\ transactionHistory[ph][j].fee = 12
          /\ transactionHistory[ph][j].amount = 238

\* The checks of transfer that come before the daily limit.
PassesChecksBeforeLimit(caller, from, to, v) ==
    /\ P2PAuthorized(caller)
    /\ ~p2pPaused
    /\ minTransferAmount <= v /\ v <= maxTransferAmount
    /\ from # to
    /\ isRegistered[to]

PausedLastOrder(from, to, v) ==
    IF v < minTransferAmount \/ v > maxTransferAmount THEN "InvalidAmount"
    ELSE IF from = to THEN "SelfTransferNotAllowed"
    ELSE IF ~isRegistered[to] THEN "RecipientNotRegistered"
    ELSE IF dailyTransfers[from][Today] + v > dailyTransferLimit
         THEN "DailyLimitExceeded"
    ELSE IF p2pPaused THEN "EnforcedPause"
    ELSE "ok"

\* The same checks with the paused check first.
PausedFirstOrder(from, to, v) ==
    IF p2pPaused THEN "EnforcedPause"
    ELSE IF v < minTransferAmount \/ v > maxTransferAmount THEN "InvalidAmount"
    ELSE IF from = to THEN "SelfTransferNotAllowed"
    ELSE IF ~isRegistered[to] THEN "RecipientNotRegistered"
    ELSE IF dailyTransfers[from][Today] + v > dailyTransferLimit
         THEN "DailyLimitExceeded"
    ELSE "ok"

-----------------------------------------------------------------------------
(* Properties of the loan engine *)

LoanStatuses == {"None", "Active", "Repaid", "Defaulted"}

\* The loans an identity ever took, by the ids in its loan history.
LoansOf(ph) == {loansById[loanHistory[ph][i]] : i \in 1 .. Len(loanHistory[ph])}

\* C2: in every reachable state each identity has, among all the loans it ever
\* took, at most one whose status is Active, and that one is its current loan;
\* requestLoan for an identity whose current loan is Active does not go
\* through, and for an authorized caller on an engine that is not paused it
\* reverts with ActiveLoanExists.
C2_AtMostOneActive ==
    /\ \A ph \in PhoneHashes :
          /\ Cardinality({l \in LoansOf(ph) : l.status = "Active"}) <= 1
          /\ \A l \in LoansOf(ph) : l.status = "Active" => loans[ph] = l
    /\ \A ph \in PhoneHashes, c \in Callers, r \in LoanCalls :
          loans[ph].status = "Active" =>
             LET err == RequestLoanError(c, ph, r[1], r[2], r[3], r[4], r[5])
             IN /\ err # "ok"
                /\ (LoanAuthorized(c) /\ ~loanPaused) => err = "ActiveLoanExists"

\* Both identities hold an Active loan and a further request was refused.
C2_Witness ==
    /\ \A ph \in Parties : loans[ph].status = "Active"
    /\ last.op = "requestLoan" /\ last.err = "ActiveLoanExists"

\* C3: the status of an identity's loan moves only None -> Active
\* (requestLoan), Active -> Repaid (repayLoan, the loan then fully repaid),
\* Active -> Defaulted (processDefault) and Repaid/Defaulted -> Active
\* (requestLoan); no status returns to None and no other status is reached.
C3_StatusMoves ==
    [][\A ph \in PhoneHashes :
         LET a == loans[ph].status
             b == loans'[ph].status
         IN /\ b \in LoanStatuses
            /\ a # b =>
                 \/ a = "None" /\ b = "Active" /\ last'.op = "requestLoan"
                 \/ a = "Active" /\ b = "Repaid" /\ last'.op = "repayLoan"
                      /\ loans'[ph].repaidAmount = loans'[ph].totalDue
                 \/ a = "Active" /\ b = "Defaulted" /\ last'.op = "processDefault"
                 \/ a \in {"Repaid", "Defaulted"} /\ b = "Active"
                      /\ last'.op = "requestLoan"]_vars

\* An identity defaulted on its first loan and holds a second, Active one,
\* while the other identity repaid.
C3_Witness ==
    \E ph \in Parties, other \in Parties :
       /\ Len(loanHistory[ph]) = 2
       /\ loansById[loanHistory[ph][1]].status = "Defaulted"
       /\ loans[ph].status = "Active"
       /\ other # ph

\* The first of the checks of requestLoan before the collateral check that
\* fails, in the order of C7; "none" when all six pass.
FirstFailingCheck(ph, principal, duration, tierId) ==
    LET tier == TierOf(tierId) IN
    IF ~isRegistered[ph] THEN "NotRegistered"
    ELSE IF loans[ph].status = "Active" THEN "ActiveLoanExists"
    ELSE IF ~tier.active THEN "InvalidTier"
    ELSE IF principal < tier.minAmount \/ principal > tier.maxAmount
         THEN "InvalidAmount"
    ELSE IF duration < tier.minDuration \/ duration > tier.maxDuration
         THEN "InvalidDuration"
    ELSE IF availableLiquidity < principal THEN "InsufficientLiquidity"
    ELSE "none"

\* C7: requestLoan by an authorized caller on an engine that is not paused
\* reports the first failing check in the order NotRegistered,
\* ActiveLoanExists, InvalidTier, InvalidAmount, InvalidDuration,
\* InsufficientLiquidity, InsufficientCollateral; and a request that fails
\* leaves the loan slot, the pool, the loan counter and the history unchanged.
C7_RequestOrder ==
    [][last'.op = "requestLoan" =>
          LET c == last'.args
              first == FirstFailingCheck(c[2], c[3], c[4], c[5])
          IN /\ (LoanAuthorized(c[1]) /\ ~loanPaused) =>
                  /\ first # "none" => last'.err = first
                  /\ first = "none" =>
                       last'.err \in {"InsufficientCollateral", "TransferFailed", "ok"}
                  /\ (first = "none" /\ (c[6] + 1) * 10000 <= c[3] * minCollateralRatio)
                       => last'.err = "InsufficientCollateral"
             /\ last'.err # "ok" =>
                  UNCHANGED <<loans, loansById, loanHistory, availableLiquidity,
                              totalLoansIssued, totalActiveLoanValue, loanBalance>>]_vars

\* A request for a registered identity that is too small and too short, with
\* no collateral, on a pool that cannot fund it: InvalidAmount is reported.
C7_Witness ==
    /\ last.op = "requestLoan" /\ last.err = "InvalidAmount"
    /\ last.args[3] = 9 /\ last.args[4] = 7 * DAY - 1 /\ last.args[6] = 0
    /\ availableLiquidity < 9

\* The smallest integer that is at least n / d.
CeilDiv(n, d) == (n + d - 1) \div d

\* C8: the collateral requestLoan requires for principal p is
\* ceil(p * ratioBps / 10000): a request whose collateral is below that ceiling
\* does not go through, InsufficientCollateral is reported only for a collateral
\* below it, and calculateLoanQuote reports that ceiling as requiredCollateral
\* for the request.
C8_CeilCollateral ==
    [][last'.op = "requestLoan" =>
          LET c == last'.args
              ceiling == CeilDiv(c[3] * minCollateralRatio, 10000)
          IN /\ c[6] < ceiling => last'.err # "ok"
             /\ last'.err = "InsufficientCollateral" => c[6] < ceiling
             /\ last'.err = "ok" =>
                  calculateLoanQuote(c[3], c[4], c[5]).requiredCollateral = ceiling]_vars

\* C10: repayLoan with a payment of at least the remaining due amount sets the
\* loan Repaid with repaidAmount = totalDue, adds totalDue to the pool and
\* totalDue - principal to the interest earned, and pays the borrower
\* collateral + (payment - remaining), just the collateral for an exact payment;
\* it goes through whenever the borrower's wallet accepts the payout; repayLoan
\* for an identity with no Active loan fails with NoActiveLoan; and a repayLoan
\* that fails changes nothing.
C10_FullRepayment ==
    [][last'.op = "repayLoan" =>
          LET c == last'.args
              ph == c[2]
              payment == c[3]
              loan == loans[ph]
              remaining == loan.totalDue - loan.repaidAmount
          IN /\ (LoanAuthorized(c[1]) /\ loan.status # "Active") =>
                  last'.err = "NoActiveLoan"
             /\ last'.err # "ok" => UNCHANGED <<regVars, p2pVars, loanVars, now>>
             /\ (LoanAuthorized(c[1]) /\ loan.status = "Active"
                   /\ payment >= remaining /\ c[4]) => last'.err = "ok"
             /\ (last'.err = "ok" /\ payment >= remaining) =>
                  /\ loan.status = "Active"
                  /\ loans'[ph].status = "Repaid"
                  /\ loans'[ph].repaidAmount = loan.totalDue
                  /\ loans'[ph].totalDue = loan.totalDue
                  /\ loansById'[loan.loanId] = loans'[ph]
                  /\ availableLiquidity' = availableLiquidity + loan.totalDue
                  /\ totalInterestEarned' =
                       totalInterestEarned + (loan.totalDue - loan.principal)
                  /\ last'.paid = loan.collateral + (payment - remaining)
                  /\ payment = remaining => last'.paid = loan.collateral]_vars

\* A loan repaid with a payment one unit above the remaining due amount: the
\* borrower got the collateral and the unit back.
C10_Witness ==
    /\ last.op = "repayLoan" /\ last.err = "ok"
    /\ loans[last.args[2]].status = "Repaid"
    /\ last.paid = loans[last.args[2]].collateral + 1

-----------------------------------------------------------------------------
(* Properties of the loan engine while tier 0 changes *)

\* C9: a loan created by requestLoan has totalDue = principal +
\* floor(principal * rate * duration / (365 days * 10000)) with rate the tier's
\* rate at the time of the request, repaidAmount = 0 and interestRate = rate;
\* and no later step, an update of the tier included, changes the totalDue,
\* the interestRate or the principal of a loan.
C9_TotalDueFixed ==
    [][/\ (last'.op = "requestLoan" /\ last'.err = "ok") =>
            LET c == last'.args
                principal == c[3]
                rate == TierOf(c[5]).interestRateBps
                loan == loans'[c[2]]
                interest == loan.totalDue - principal
                year == 365 * DAY * 10000
            IN /\ interest >= 0
               /\ interest * year <= principal * rate * c[4]
               /\ principal * rate * c[4] < (interest + 1) * year
               /\ loan.repaidAmount = 0
               /\ loan.interestRate = rate
               /\ loan.principal = principal
               /\ loan.status = "Active"
               /\ loansById'[loan.loanId] = loan
       /\ \A id \in DOMAIN loansById :
             /\ loansById'[id].totalDue = loansById[id].totalDue
             /\ loansById'[id].interestRate = loansById[id].interestRate
             /\ loansById'[id].principal = loansById[id].principal
       /\ last'.op = "updateTier" => (loans' = loans /\ loansById' = loansById)]_vars

\* Tier 0 now charges 3000 bps, and the loan taken at 1500 bps still owes
\* 999 + floor(999 * 1500 * 7 days / (365 days * 10000)) = 1001.
C9_Witness ==
    /\ last.op = "updateTier" /\ last.err = "ok"
    /\ loanTiers[0].interestRateBps = 3000
    /\ \E ph \in Parties :
          /\ loans[ph].status = "Active"
          /\ loans[ph].interestRate = 1500
          /\ loans[ph].totalDue = 1001

-----------------------------------------------------------------------------
(* Properties of partial repayment and default *)

\* C11: repayLoan with a payment below the remaining due amount adds the
\* payment to repaidAmount and to the pool, leaves the loan Active with its
\* principal, collateral, totalDue, startTime and duration as they were, and
\* pays nothing out; and an Active loan always has repaidAmount < totalDue.
C11_PartialRepayment ==
    [][/\ (last'.op = "repayLoan" /\ last'.err = "ok"
             /\ last'.args[3] < loans[last'.args[2]].totalDue
                                  - loans[last'.args[2]].repaidAmount) =>
            LET ph == last'.args[2]
                payment == last'.args[3]
                loan == loans[ph]
                after == loans'[ph]
            IN /\ loan.status = "Active"
               /\ after.repaidAmount = loan.repaidAmount + payment
               /\ availableLiquidity' = availableLiquidity + payment
               /\ after.status = "Active"
               /\ after.principal = loan.principal
               /\ after.collateral = loan.collateral
               /\ after.totalDue = loan.totalDue
               /\ after.startTime = loan.startTime
               /\ after.duration = loan.duration
               /\ after.loanId = loan.loanId
               /\ loansById'[loan.loanId] = after
               /\ last'.paid = 0
               /\ loanBalance' = loanBalance + payment
               /\ totalInterestEarned' = totalInterestEarned
       /\ \A ph \in PhoneHashes :
             loans'[ph].status = "Active" =>
                loans'[ph].repaidAmount < loans'[ph].totalDue]_vars

\* Two partial repayments of 500 on a loan that owes 1001: still Active.
C11_Witness ==
    /\ last.op = "repayLoan" /\ last.err = "ok" /\ last.paid = 0
    /\ loans[last.args[2]].status = "Active"
    /\ loans[last.args[2]].repaidAmount = 1000
    /\ loans[last.args[2]].totalDue = 1001

\* C12: processDefault goes through only for a loan that is Active and
\* overdue (now > startTime + duration): at now <= startTime + duration it
\* fails with LoanNotDue, with no Active loan it fails with NoActiveLoan; when
\* it goes through the loan becomes Defaulted and the pool grows by the loan's
\* whole collateral, whatever was repaid; a failed call changes nothing; and a
\* Defaulted loan is never touched again, so its collateral enters the pool at
\* most once.
C12_Default ==
    [][/\ last'.op = "processDefault" =>
            LET ph == last'.args[2]
                loan == loans[ph]
            IN /\ last'.err = "ok" =>
                    /\ loan.status = "Active"
                    /\ now > loan.startTime + loan.duration
                    /\ loans'[ph] = [loan EXCEPT !.status = "Defaulted"]
                    /\ loansById'[loan.loanId] = loans'[ph]
                    /\ availableLiquidity' = availableLiquidity + loan.collateral
               /\ (LoanAuthorized(last'.args[1]) /\ loan.status # "Active") =>
                    last'.err = "NoActiveLoan"
               /\ (LoanAuthorized(last'.args[1]) /\ loan.status = "Active"
                     /\ now <= loan.startTime + loan.duration) =>
                    last'.err = "LoanNotDue"
               /\ last'.err # "ok" => UNCHANGED <<regVars, p2pVars, loanVars, now>>
       /\ \A id \in DOMAIN loansById :
             loansById[id].status = "Defaulted" => loansById'[id] = loansById[id]]_vars

\* A loan defaulted after a partial repayment of 500, and a second
\* processDefault for it refused.
C12_Witness ==
    /\ last.op = "processDefault" /\ last.err = "NoActiveLoan"
    /\ loans["p1"].status = "Defaulted"
    /\ loans["p1"].repaidAmount = 500
    /\ availableLiquidity >= loans["p1"].collateral

\* processDefault refused at the very instant the loan falls due.
C12_AtDueWitness ==
    /\ last.op = "processDefault" /\ last.err = "LoanNotDue"
    /\ loans["p1"].status = "Active"
    /\ now = loans["p1"].startTime + loans["p1"].duration

-----------------------------------------------------------------------------
(* Properties of the payouts *)

\* C13: a transfer that passes every check but whose payout to the recipient's
\* wallet fails reverts with TransferFailed, a transfer goes through only when
\* the payout succeeded, and after TransferFailed the sender's daily counter,
\* both histories, the records by hash, the accumulated fees, totalTransactions
\* and totalVolume are as before the call.
C13_PayoutFailure ==
    [][last'.op = "transfer" =>
          LET c == last'.args
              counter == dailyTransfers[c[2]][Today]
          IN /\ (PassesChecksBeforeLimit(c[1], c[2], c[3], c[4])
                   /\ counter + c[4] <= dailyTransferLimit /\ ~c[5]) =>
                  last'.err = "TransferFailed"
             /\ last'.err = "ok" => c[5]
             /\ last'.err = "TransferFailed" =>
                  /\ ~c[5]
                  /\ dailyTransfers' = dailyTransfers
                  /\ transactionHistory' = transactionHistory
                  /\ transactionByHash' = transactionByHash
                  /\ accumulatedFees' = accumulatedFees
                  /\ totalTransactions' = totalTransactions
                  /\ totalVolume' = totalVolume
                  /\ p2pBalance' = p2pBalance
                  /\ UNCHANGED <<p2pVars, regVars, loanVars>>]_vars

\* A payout failed after an earlier transfer went through: the counter and the
\* history still show the earlier transfer only.
C13_Witness ==
    /\ last.op = "transfer" /\ last.err = "TransferFailed"
    /\ totalTransactions = 1
    /\ dailyTransfers[last.args[2]][Today] = 250
    /\ Len(transactionHistory[last.args[2]]) = 1

\* C14: a requestLoan that goes through creates an Active loan that holds the
\* collateral sent with it, takes the principal from the pool and sends exactly
\* the principal to the wallet the registry has for the identity at that
\* moment; a request that passes every check but whose disbursement fails
\* reverts with TransferFailed, and after TransferFailed there is no new loan
\* and the pool, the loan counter, the history and totalActiveLoanValue are as
\* before.
C14_Disbursement ==
    [][last'.op = "requestLoan" =>
          LET c == last'.args
              ph == c[2]
              principal == c[3]
          IN /\ last'.err = "ok" =>
                  /\ c[7]
                  /\ loans'[ph].status = "Active"
                  /\ loans'[ph].collateral = c[6]
                  /\ loans'[ph].principal = principal
                  /\ loans'[ph].loanId = totalLoansIssued
                  /\ loansById'[totalLoansIssued] = loans'[ph]
                  /\ loanHistory'[ph] = Append(loanHistory[ph], totalLoansIssued)
                  /\ totalLoansIssued' = totalLoansIssued + 1
                  /\ availableLiquidity' = availableLiquidity - principal
                  /\ totalActiveLoanValue' = totalActiveLoanValue + principal
                  /\ last'.paid = principal
                  /\ last'.to = phoneToWallet[ph]
                  /\ last'.to # ZeroAddress
                  /\ loanBalance' = loanBalance + c[6] - principal
             /\ (LoanAuthorized(c[1]) /\ ~loanPaused
                   /\ FirstFailingCheck(ph, principal, c[4], c[5]) = "none"
                   /\ (c[6] + 1) * 10000 > principal * minCollateralRatio
                   /\ ~c[7]) => last'.err = "TransferFailed"
             /\ last'.err = "TransferFailed" =>
                  /\ loans' = loans
                  /\ loansById' = loansById
                  /\ loanHistory' = loanHistory
                  /\ availableLiquidity' = availableLiquidity
                  /\ totalLoansIssued' = totalLoansIssued
                  /\ totalActiveLoanValue' = totalActiveLoanValue
                  /\ loanBalance' = loanBalance
                  /\ last'.paid = 0]_vars

\* The identity's wallet was replaced by "w2" and the loan was paid out there.
C14_Witness ==
    /\ last.op = "requestLoan" /\ last.err = "ok"
    /\ phoneToWallet["p1"] = "w2"
    /\ last.to = "w2" /\ last.paid = 999
    /\ loans["p1"].status = "Active"

\* A disbursement refused by the wallet: the pool is whole and no loan exists.
C14_RollbackWitness ==
    /\ last.op = "requestLoan" /\ last.err = "TransferFailed"
    /\ availableLiquidity = 2000
    /\ totalLoansIssued = 0
    /\ loans["p1"].status = "None"

-----------------------------------------------------------------------------
(* Properties of calls made while a payout is in flight *)

\* C15: a call into MicroLoan that the recipient of a disbursement makes while
\* the disbursement of requestLoan is in flight is rejected, and the state of
\* MicroLoan after the request is what the request alone makes it: the pool
\* falls by the principal and the contract's balance moves by collateral less
\* principal.
C15_NoNestedMutation ==
    [][last'.op = "requestLoan.reentered" =>
          /\ last'.args[9] # "ok"
          /\ availableLiquidity' = availableLiquidity - last'.args[3]
          /\ loanBalance' = loanBalance + last'.args[6] - last'.args[3]]_vars

\* The calls the guard does stop: a nested requestLoan, repayLoan,
\* processDefault or removeLiquidity is rejected and changes nothing.
C15_GuardedCallsRejected ==
    [][(last'.op = "requestLoan.reentered"
          /\ last'.args[7] \in {"requestLoan", "repayLoan", "processDefault",
                                "removeLiquidity"}) =>
          /\ last'.args[9] # "ok"
          /\ availableLiquidity' = availableLiquidity - last'.args[3]]_vars

-----------------------------------------------------------------------------
(* Properties of the access checks *)

\* C16: registerWallet, updatePin, updateWallet, transfer, requestLoan,
\* repayLoan and processDefault fail with NotAuthorized exactly when the
\* caller is neither the owner nor, at the time of the call, in the set of
\* authorized backends of the contract called; the failing call changes
\* nothing.  So a backend the owner added is let in, and one the owner has
\* removed is turned away again.
C16_OnlyAuthorized ==
    [][/\ last'.op \in {"registerWallet", "updatePin", "updateWallet"} =>
            (last'.err = "NotAuthorized"
                <=> last'.args[1] \notin regBackends \cup {Owner})
       /\ last'.op = "transfer" =>
            (last'.err = "NotAuthorized"
                <=> last'.args[1] \notin p2pBackends \cup {Owner})
       /\ last'.op \in {"requestLoan", "repayLoan", "processDefault"} =>
            (last'.err = "NotAuthorized"
                <=> last'.args[1] \notin loanBackends \cup {Owner})
       /\ last'.err = "NotAuthorized" =>
            UNCHANGED <<regVars, p2pVars, loanVars>>]_vars

\* Reached: the backend registered an identity while it was authorized, was
\* removed, and its next call of the registry is turned away.
C16_Witness ==
    /\ last.op \in {"updatePin", "updateWallet", "registerWallet"}
    /\ last.args[1] = Backend
    /\ last.err = "NotAuthorized"
    /\ Backend \notin regBackends
    /\ totalUsers > 0


\* C17: addAuthorizedBackend and removeAuthorizedBackend of the three
\* contracts, updateFee, updateLimits, withdrawFees, pause, unpause,
\* addLiquidity, removeLiquidity, updateTier and updateCollateralRatio fail
\* when the caller is not the owner, an authorized backend included, and the
\* failing call changes nothing: not the sets of backends, not a parameter.
C17_OnlyOwner ==
    [][(/\ last'.op \in {"registry.addAuthorizedBackend",
                         "registry.removeAuthorizedBackend",
                         "p2p.addAuthorizedBackend", "p2p.removeAuthorizedBackend",
                         "loan.addAuthorizedBackend", "loan.removeAuthorizedBackend",
                         "updateFee", "updateLimits", "withdrawFees",
                         "p2p.pause", "p2p.unpause", "loan.pause", "loan.unpause",
                         "addLiquidity", "removeLiquidity", "updateTier",
                         "updateCollateralRatio"}
        /\ last'.args[1] # Owner) =>
          /\ last'.err # "ok"
          /\ UNCHANGED <<regVars, p2pVars, loanVars>>]_vars

\* Reached: an account that is an authorized backend of MicroLoan calls
\* addAuthorizedBackend for another account and is turned away.
C17_Witness ==
    /\ last.op = "loan.addAuthorizedBackend"
    /\ last.args[1] = Backend
    /\ last.args[2] = Stranger
    /\ Backend \in loanBackends
    /\ last.err # "ok"

-----------------------------------------------------------------------------
(* Properties of registerWallet, verifyPin and updatePin *)

\* The identities that hold wallet as their owner.
IdentitiesOf(wallet) ==
    {ph \in PhoneHashes : isRegistered[ph] /\ phoneToWallet[ph] = wallet}

\* C18: registerWallet with a non-zero PIN hash by an authorized caller goes
\* through exactly when the identity is not registered, the wallet is not
\* the zero address and the wallet is not the owner of a registered identity;
\* otherwise it fails with PhoneAlreadyRegistered, InvalidWalletAddress or
\* WalletAlreadyRegistered respectively.
C18_RegisterExactlyWhen ==
    [][(/\ last'.op = "registerWallet"
        /\ last'.args[1] \in regBackends \cup {Owner}
        /\ last'.args[4] # ZeroHash) =>
          last'.err =
             IF isRegistered[last'.args[2]] THEN "PhoneAlreadyRegistered"
             ELSE IF last'.args[3] = ZeroAddress THEN "InvalidWalletAddress"
             ELSE IF IdentitiesOf(last'.args[3]) # {} THEN "WalletAlreadyRegistered"
             ELSE "ok"]_vars

\* What does hold of registerWallet: after a call that goes through,
\* getWallet gives the wallet, getPhoneHash the identity, the PIN hash
\* verifies and there is one user more; a failing call leaves the registry
\* as it was.
C18_RegisterEffects ==
    [][last'.op = "registerWallet" =>
          IF last'.err = "ok"
          THEN /\ phoneToWallet'[last'.args[2]] = last'.args[3]
               /\ walletToPhone'[last'.args[3]] = last'.args[2]
               /\ isRegistered'[last'.args[2]]
               /\ phoneToPinHash'[last'.args[2]] = last'.args[4]
               /\ totalUsers' = totalUsers + 1
          ELSE UNCHANGED regVars]_vars


\* C19: verifyPin always returns a boolean, and it returns true exactly when
\* the identity is registered and the candidate is the PIN hash stored for
\* it; for an identity that is not registered it returns false for every
\* candidate, the zero hash included.
C19_VerifyPin ==
    \A ph \in PhoneHashes, h \in PinHashes :
       /\ verifyPin(ph, h) \in BOOLEAN
       /\ verifyPin(ph, h) <=> (isRegistered[ph] /\ phoneToPinHash[ph] = h)
       /\ ~isRegistered[ph] => ~verifyPin(ph, h)

\* Reached: "p1" is registered with PIN hash pinA, which verifies while pinB
\* does not; "p2" is not registered and the zero hash does not verify for it.
C19_Witness ==
    /\ isRegistered["p1"]
    /\ verifyPin("p1", "pinA")
    /\ ~verifyPin("p1", "pinB")
    /\ ~isRegistered["p2"]
    /\ ~verifyPin("p2", ZeroHash)
    /\ ~verifyPin("p2", "pinA")


\* C20: updatePin by an authorized caller for an identity that is not
\* registered fails with PhoneNotRegistered and changes nothing; after a call
\* that goes through, verifyPin of the identity is true for the new hash and
\* for no other, the owner bindings and the registrations are as before and
\* so is the PIN hash of every other identity.
C20_UpdatePin ==
    [][(last'.op = "updatePin" /\ last'.args[1] \in regBackends \cup {Owner}) =>
          /\ ~isRegistered[last'.args[2]] =>
                /\ last'.err = "PhoneNotRegistered"
                /\ UNCHANGED regVars
          /\ last'.err = "ok" =>
                /\ \A h \in PinHashes :
                      (isRegistered'[last'.args[2]]
                          /\ phoneToPinHash'[last'.args[2]] = h)
                      <=> h = last'.args[3]
                /\ UNCHANGED <<phoneToWallet, walletToPhone, isRegistered,
                               totalUsers>>
                /\ \A ph \in PhoneHashes \ {last'.args[2]} :
                      phoneToPinHash'[ph] = phoneToPinHash[ph]]_vars

\* Reached: the PIN hash of "p1" has been changed to pinB, which verifies
\* while pinA no longer does, and "p2" still verifies with pinA.
C20_Witness ==
    /\ last.op = "updatePin"
    /\ last.err = "ok"
    /\ last.args[2] = "p1"
    /\ verifyPin("p1", "pinB")
    /\ ~verifyPin("p1", "pinA")
    /\ verifyPin("p2", "pinA")

\* Reached: updatePin for an identity that is not registered has failed.
C20_UnregisteredWitness ==
    /\ last.op = "updatePin"
    /\ last.err = "PhoneNotRegistered"
    /\ ~isRegistered[last.args[2]]

-----------------------------------------------------------------------------
(* Properties of updateWallet *)

\* What updateWallet(id, newWallet) does in a step, as a relation between the
\* registry before and after: a failure is PhoneNotRegistered,
\* InvalidWalletAddress or WalletAlreadyRegistered and changes nothing; a
\* success unbinds the old wallet, binds the new one both ways, and leaves
\* the PIN hashes, the registrations and the bindings of every other
\* identity, forward and reverse, as they were.
ReassignStep(id, newWallet, err) ==
    LET oldWallet == phoneToWallet[id] IN
    IF err = "ok"
    THEN /\ walletToPhone'[oldWallet] = ZeroHash
         /\ phoneToWallet'[id] = newWallet
         /\ walletToPhone'[newWallet] = id
         /\ UNCHANGED <<phoneToPinHash, isRegistered, totalUsers>>
         /\ \A ph \in PhoneHashes \ {id} :
               /\ phoneToWallet'[ph] = phoneToWallet[ph]
               /\ isRegistered[ph] =>
                     walletToPhone'[phoneToWallet[ph]] = walletToPhone[phoneToWallet[ph]]
    ELSE /\ err \in {"PhoneNotRegistered", "InvalidWalletAddress",
                     "WalletAlreadyRegistered"}
         /\ UNCHANGED regVars

\* C21: every call of updateWallet by an authorized caller is such a step.
C21_ReassignOwner ==
    [][(last'.op = "updateWallet" /\ last'.args[1] \in regBackends \cup {Owner}) =>
          ReassignStep(last'.args[2], last'.args[3], last'.err)]_vars

\* What does hold: the same, as long as the identity with the zero hash is
\* not registered.
C21_ReassignWithoutZeroHash ==
    [][(/\ last'.op = "updateWallet"
        /\ last'.args[1] \in regBackends \cup {Owner}
        /\ ~isRegistered[ZeroHash]) =>
          ReassignStep(last'.args[2], last'.args[3], last'.err)]_vars

-----------------------------------------------------------------------------
(* Properties of the pause switches *)

\* C22: while P2PTransfer is paused a call of transfer fails, whatever its
\* arguments, and changes nothing; while it is not paused no transfer fails
\* for being paused; and the flag moves only in a pause or unpause called by
\* the owner.
C22_TransferPaused ==
    [][/\ (last'.op = "transfer" /\ p2pPaused) =>
             /\ last'.err # "ok"
             /\ UNCHANGED <<regVars, p2pVars, loanVars>>
       /\ (last'.op = "transfer" /\ ~p2pPaused) => last'.err # "EnforcedPause"
       /\ p2pPaused' # p2pPaused =>
             /\ last'.op \in {"p2p.pause", "p2p.unpause"}
             /\ last'.args[1] = Owner]_vars

\* Reached: a transfer went through, the owner paused the contract, and the
\* same transfer is turned away.
C22_Witness ==
    /\ last.op = "transfer"
    /\ last.args = <<Owner, "p1", "p2", 250, TRUE>>
    /\ last.err = "EnforcedPause"
    /\ p2pPaused
    /\ Len(transactionHistory["p1"]) = 1

\* Reached: the contract is not paused again and the transfer that was made
\* before goes through a second time.
C22_UnpausedWitness ==
    /\ last.op = "transfer"
    /\ last.err = "ok"
    /\ ~p2pPaused
    /\ Len(transactionHistory["p1"]) = 2


\* C23: while MicroLoan is paused, a call of requestLoan, repayLoan or
\* processDefault fails and leaves the loans, the pool and the counters as
\* they were.
C23_LoanPaused ==
    [][(last'.op \in {"requestLoan", "repayLoan", "processDefault"} /\ loanPaused) =>
          /\ last'.err # "ok"
          /\ UNCHANGED loanVars]_vars

\* What does hold: while MicroLoan is paused, requestLoan fails with
\* EnforcedPause for an authorized caller and changes nothing.
C23_RequestLoanPaused ==
    [][(last'.op = "requestLoan" /\ loanPaused) =>
          /\ last'.err = "EnforcedPause"
          /\ UNCHANGED loanVars]_vars

-----------------------------------------------------------------------------
(* Properties of the transaction history *)

\* C24: for an identity with n records, getTransactionHistory(id, offset,
\* limit) is the empty list when offset >= n (so when n = 0), and otherwise
\* holds min(limit, n - offset) records, the k-th of them (k = 0, 1, ...)
\* being the record inserted as number n - 1 - offset - k: newest first.
\* Positions of a sequence count from 1.
C24_HistoryPage ==
    \A ph \in PhoneHashes, offset \in 0 .. MaxTx + 1, limit \in 0 .. MaxTx + 1 :
       LET n == Len(transactionHistory[ph])
           page == getTransactionHistory(ph, offset, limit)
           remaining == n - offset
       IN /\ Len(page) = IF offset >= n THEN 0
                         ELSE IF limit < remaining THEN limit ELSE remaining
          /\ \A k \in 0 .. Len(page) - 1 :
                page[k + 1] = transactionHistory[ph][(n - 1 - offset - k) + 1]

\* Reached: "p1" has two different records; the first page of one is the
\* newer record, the page at offset 1 is the older one whatever the limit,
\* and the page at offset 2 is empty.
C24_Witness ==
    /\ Len(transactionHistory["p1"]) = 2
    /\ transactionHistory["p1"][1] # transactionHistory["p1"][2]
    /\ getTransactionHistory("p1", 0, 1) = <<transactionHistory["p1"][2]>>
    /\ getTransactionHistory("p1", 1, 3) = <<transactionHistory["p1"][1]>>
    /\ getTransactionHistory("p1", 2, 3) = << >>
    /\ getTransactionHistory(ZeroHash, 0, 3) = << >>


\* The records of all histories.
AllRecords ==
    UNION {{transactionHistory[ph][i] : i \in 1 .. Len(transactionHistory[ph])} :
             ph \in PhoneHashes}

\* C25: every record of every history names a registered sender and a
\* registered recipient.
C25_BothRegistered ==
    \A rec \in AllRecords :
       /\ checkRegistration(rec.fromPhoneHash)
       /\ checkRegistration(rec.toPhoneHash)

\* What does hold: the recipient of every record is registered.
C25_RecipientRegistered ==
    \A rec \in AllRecords : checkRegistration(rec.toPhoneHash)

-----------------------------------------------------------------------------
(* Properties of the fees *)

\* C26: accumulatedFees is the sum of the fees of the transfers that went
\* through since the last withdrawal that went through.  It is zero at the
\* start; a transfer that goes through adds the fee of its record, which at
\* 50 bps on 1 ether (10000 units) is 50 units with 9950 paid to the
\* recipient; withdrawFees that goes through pays out accumulatedFees and
\* sets it to zero; withdrawFees by the owner at zero fails with
\* NoFeesToWithdraw; and no other step, a failing one included, moves it.
C26_AccumulatedFees ==
    /\ accumulatedFees = 0
    /\ [][/\ (last'.op = "transfer" /\ last'.err = "ok") =>
                LET r == NewestRecord(transactionHistory'[last'.args[3]])
                IN /\ accumulatedFees' = accumulatedFees + r.fee
                   /\ (last'.args[4] = 10000 /\ transferFeeBps = 50) =>
                         (r.fee = 50 /\ last'.paid = 9950)
          /\ (last'.op = "withdrawFees" /\ last'.err = "ok") =>
                /\ last'.paid = accumulatedFees
                /\ last'.to = last'.args[2]
                /\ accumulatedFees' = 0
                /\ p2pBalance' = p2pBalance - accumulatedFees
          /\ (last'.op = "withdrawFees" /\ last'.args[1] = Owner
                /\ accumulatedFees = 0) =>
                /\ last'.err = "NoFeesToWithdraw"
                /\ UNCHANGED <<regVars, p2pVars, loanVars>>
          /\ ~(last'.op \in {"transfer", "withdrawFees"} /\ last'.err = "ok") =>
                accumulatedFees' = accumulatedFees]_vars

\* Reached: the fees of two transfers, 1 unit on 250 and 50 units on 10000
\* at 50 bps, have been withdrawn in one payment of 51 units.
C26_Witness ==
    /\ last.op = "withdrawFees"
    /\ last.err = "ok"
    /\ last.paid = 51
    /\ accumulatedFees = 0
    /\ totalTransactions = 2


\* C27: the fee rate is never above MAX_FEE_BPS (500 bps) and
\* minTransferAmount is always below maxTransferAmount; updateFee by the
\* owner with a rate above 500 fails with InvalidFee, updateLimits by the
\* owner with min >= max fails, and either leaves the parameters as they
\* were; so the fee of a transfer that goes through is at most 5% of its
\* value.
C27_FeeAndLimits ==
    /\ [](transferFeeBps <= MAX_FEE_BPS /\ minTransferAmount < maxTransferAmount)
    /\ [][/\ (last'.op = "updateFee" /\ last'.args[1] = Owner
                /\ last'.args[2] > 500) =>
                /\ last'.err = "InvalidFee"
                /\ UNCHANGED p2pVars
          /\ (last'.op = "updateLimits" /\ last'.args[1] = Owner
                /\ last'.args[2] >= last'.args[3]) =>
                /\ last'.err # "ok"
                /\ UNCHANGED p2pVars
          /\ (last'.op = "transfer" /\ last'.err = "ok") =>
                NewestRecord(transactionHistory'[last'.args[3]]).fee * 100
                   <= 5 * last'.args[4]]_vars

\* Reached: the owner has set the rate to 500 bps, the highest there is, and
\* a transfer of 10000 units has gone through with a fee of 500 units.
C27_Witness ==
    /\ last.op = "transfer"
    /\ last.err = "ok"
    /\ last.args[4] = 10000
    /\ transferFeeBps = 500
    /\ last.paid = 9500

\* Reached: updateFee(501) by the owner has failed.
C27_InvalidFeeWitness ==
    /\ last.op = "updateFee"
    /\ last.args[2] = 501
    /\ last.err = "InvalidFee"

-----------------------------------------------------------------------------
(* Properties of the parameters of MicroLoan *)

\* C28: minCollateralRatio is always within 10000 .. 30000 bps;
\* updateCollateralRatio by the owner with a ratio outside that range fails
\* and removeLiquidity by the owner of more than availableLiquidity fails,
\* and either leaves the ratio, the pool and the rest of MicroLoan as they
\* were.
C28_RatioAndPool ==
    /\ [](minCollateralRatio >= 10000 /\ minCollateralRatio <= 30000)
    /\ [][/\ (last'.op = "updateCollateralRatio" /\ last'.args[1] = Owner
                /\ (last'.args[2] < 10000 \/ last'.args[2] > 30000)) =>
                /\ last'.err \in {"Ratio must be >= 100%", "Ratio must be <= 300%"}
                /\ UNCHANGED loanVars
          /\ (last'.op = "removeLiquidity" /\ last'.args[1] = Owner
                /\ last'.args[2] > availableLiquidity) =>
                /\ last'.err = "Insufficient liquidity"
                /\ UNCHANGED loanVars]_vars

\* Reached: at the highest ratio there is, with 500 units in the pool, a
\* removal of 1500 has failed.
C28_Witness ==
    /\ last.op = "removeLiquidity"
    /\ last.args[2] = 1500
    /\ last.err = "Insufficient liquidity"
    /\ availableLiquidity = 500
    /\ minCollateralRatio = 30000

\* Reached: updateCollateralRatio(30001) by the owner has failed.
C28_CeilingWitness ==
    /\ last.op = "updateCollateralRatio"
    /\ last.args[2] = 30001
    /\ last.err = "Ratio must be <= 300%"

-----------------------------------------------------------------------------
(* Properties of the views of MicroLoan *)

\* C29: calculateLoanQuote answers for every input, with valid = FALSE
\* exactly when the tier is not active (a tier never written is not) or the
\* principal or the duration is outside the tier's range.  Held against
\* requestLoan with the same inputs in the same state: the request fails
\* with InvalidTier, InvalidAmount or InvalidDuration only where the quote is
\* not valid and never goes through where it is not; where the quote is
\* valid, a request fails with InsufficientCollateral exactly below the
\* quoted collateral, and the loan it creates owes the quoted totalDue.
C29_Quote ==
    /\ [](\A c \in LoanCalls :
            LET tier == TierOf(c[3])
                q == calculateLoanQuote(c[1], c[2], c[3])
            IN /\ q.valid \in BOOLEAN
               /\ ~q.valid <=> \/ ~tier.active
                               \/ c[1] < tier.minAmount \/ c[1] > tier.maxAmount
                               \/ c[2] < tier.minDuration \/ c[2] > tier.maxDuration)
    /\ [][last'.op = "requestLoan" =>
             LET c == last'.args
                 q == calculateLoanQuote(c[3], c[4], c[5])
             IN /\ last'.err \in {"InvalidTier", "InvalidAmount", "InvalidDuration"}
                      => ~q.valid
                /\ ~q.valid => last'.err # "ok"
                /\ q.valid =>
                      /\ last'.err = "InsufficientCollateral"
                            => c[6] < q.requiredCollateral
                      /\ c[6] >= q.requiredCollateral =>
                            last'.err \notin {"InvalidTier", "InvalidAmount",
                                              "InvalidDuration",
                                              "InsufficientCollateral"}
                      /\ last'.err = "ok" =>
                            /\ c[6] >= q.requiredCollateral
                            /\ loans'[c[2]].totalDue = q.totalDue
                            /\ q.totalDue = c[3] + q.interest]_vars

\* Reached: a request that supplies exactly the quoted collateral has gone
\* through and the loan owes the quoted totalDue, interest included.
C29_Witness ==
    LET q == calculateLoanQuote(last.args[3], last.args[4], last.args[5]) IN
    /\ last.op = "requestLoan"
    /\ last.err = "ok"
    /\ q.valid
    /\ q.interest > 0
    /\ last.args[6] = q.requiredCollateral
    /\ loans[last.args[2]].totalDue = q.totalDue

\* Reached: tier 0 is closed, the quote for it is not valid and the request
\* has failed with InvalidTier.
C29_InvalidWitness ==
    /\ last.op = "requestLoan"
    /\ last.err = "InvalidTier"
    /\ last.args[5] = 0
    /\ ~calculateLoanQuote(last.args[3], last.args[4], last.args[5]).valid


\* C30: checkEligibility answers for every identity, and its answer is the
\* first of these that applies: not registered; an Active loan; an empty
\* pool; eligible.  So it says eligible exactly when the identity is
\* registered, has no Active loan (a Repaid or Defaulted one does not count)
\* and the pool is not empty.
C30_Eligibility ==
    \A ph \in PhoneHashes :
       LET e == checkEligibility(ph)
           registered == isRegistered[ph]
           active == loans[ph].status = "Active"
           empty == availableLiquidity = 0
       IN /\ e[1] \in BOOLEAN
          /\ ~registered => e = <<FALSE, "Not registered">>
          /\ (registered /\ active) => e = <<FALSE, "Active loan exists">>
          /\ (registered /\ ~active /\ empty) => e = <<FALSE, "No liquidity available">>
          /\ e[1] <=> (registered /\ ~active /\ ~empty)
          /\ e[1] => e[2] = "Eligible for loan"

\* Reached: "p1" has an Active loan and the pool is empty, and the answer
\* names the loan; "p2" is not registered, and the answer names that.
C30_Witness ==
    /\ loans["p1"].status = "Active"
    /\ availableLiquidity = 0
    /\ checkEligibility("p1") = <<FALSE, "Active loan exists">>
    /\ checkEligibility("p2") = <<FALSE, "Not registered">>

\* Reached: the loan of "p1" is Repaid or Defaulted and "p1" is eligible again.
C30_EligibleAgainWitness ==
    /\ loans["p1"].status \in {"Repaid", "Defaulted"}
    /\ checkEligibility("p1")[1]

-----------------------------------------------------------------------------
(* Properties of the life of an identity *)

\* C31: an identity that is registered stays registered in every later
\* state, its wallet is never the zero address, and totalUsers, zero at the
\* start, is always the number of registered identities.
C31_NeverDeleted ==
    /\ totalUsers = 0
    /\ [](/\ totalUsers = Cardinality({ph \in PhoneHashes : isRegistered[ph]})
          /\ \A ph \in PhoneHashes :
                isRegistered[ph] => phoneToWallet[ph] # ZeroAddress)
    /\ [][\A ph \in PhoneHashes : isRegistered[ph] => isRegistered'[ph]]_vars

\* Reached: "p1" is the one registered identity, and it is still registered
\* after its PIN hash and then its wallet have been replaced.
C31_Witness ==
    /\ totalUsers = 1
    /\ isRegistered["p1"]
    /\ last.op = "updateWallet"
    /\ last.err = "ok"
    /\ last.args[2] = "p1"
    /\ phoneToPinHash["p1"] = "pinB"
    /\ phoneToWallet["p1"] = "w2"

\* Reached: two identities are registered and the count is two.
C31_TwoUsersWitness ==
    /\ totalUsers = 2
    /\ isRegistered["p1"] /\ isRegistered["p2"]
    /\ last.op = "updatePin"
    /\ last.err = "ok"

-----------------------------------------------------------------------------
(* Properties of the records of loans *)

\* C32: a loan that is Repaid or Defaulted is never written again.  Its
\* record under its loanId stays as it is, and so does what getLoanHistory
\* returns for it: the history of an identity only grows at its newer end,
\* also when the identity takes its next loan.
C32_TerminalImmutable ==
    [][/\ \A id \in DOMAIN loansById :
             loansById[id].status \in {"Repaid", "Defaulted"} =>
                (id \in DOMAIN loansById' /\ loansById'[id] = loansById[id])
       /\ \A ph \in PhoneHashes :
             LET before == getLoanHistory(ph, MaxLoans)
                 after == getLoanHistory(ph, MaxLoans)'
                 grown == Len(after) - Len(before)
             IN /\ grown >= 0
                /\ \A i \in 1 .. Len(before) :
                      before[i].status \in {"Repaid", "Defaulted"} =>
                         after[i + grown] = before[i]]_vars

\* Reached: "p1" has taken a second loan, and its history still shows the
\* first one as it ended, behind the new one.
C32_Witness ==
    LET history == getLoanHistory("p1", MaxLoans) IN
    /\ Len(history) = 2
    /\ history[1].status = "Active"
    /\ history[2].status \in {"Repaid", "Defaulted"}
    /\ history[1].loanId # history[2].loanId
    /\ loans["p1"] = history[1]

-----------------------------------------------------------------------------
(* Properties of the USSD menu *)

\* C33: in the menu flow a transfer, requestLoan or repayLoan is sent only
\* as the step after verifyPin has answered true in the same request, for
\* the identity of the dialing phone, and then the PIN of the request has
\* four digits and its hash is the one the registry holds for that identity;
\* after a malformed or a wrong PIN the request sends no command.
C33_PinBeforeCommand ==
    [][/\ last'.op \in {"transfer", "requestLoan", "repayLoan"} =>
             LET id == hashPhoneNumber(last.args[1]) IN
             /\ last.op = "ussd.verifyPin"
             /\ last.err = "ok"
             /\ last'.args[2] = id
             /\ last.args[3] \in {"1234", "4321"}
             /\ isRegistered[id]
             /\ phoneToPinHash[id] = hashPin(id, last.args[3])
       /\ (last.op \in {"ussd.pinFormat", "ussd.verifyPin"} /\ last.err # "ok") =>
             last'.op \notin {"transfer", "requestLoan", "repayLoan"}]_vars

\* Reached: "p1" has changed its PIN to 4321 and a transfer has gone through.
C33_Witness ==
    /\ last.op = "transfer"
    /\ last.err = "ok"
    /\ last.args[2] = "p1"
    /\ phoneToPinHash["p1"] = hashPin("p1", "4321")

\* Reached: the old PIN of "p1" has been turned away.
C33_WrongPinWitness ==
    /\ last.op = "ussd.verifyPin"
    /\ last.err = "END Incorrect PIN."
    /\ last.args[1] = "+254700000001"
    /\ last.args[3] = "1234"
    /\ isRegistered["p1"]

-----------------------------------------------------------------------------
(* Properties of the transfer records *)

\* C34: a transfer that goes through appends one and the same record (from,
\* to, net amount, fee, timestamp, hash) to the end of the sender's history,
\* to the end of the recipient's history and to the index by hash, and
\* raises totalTransactions by one; totalTransactions is the number of
\* records in the index, the lengths of all histories add up to twice
\* totalTransactions, the records of a history have hashes that differ
\* pairwise, and no step changes or removes a record that is there.
C34_RecordsAppended ==
    /\ [](/\ Cardinality(DOMAIN transactionByHash) = totalTransactions
          /\ Len(transactionHistory["p1"]) + Len(transactionHistory["p2"])
               = 2 * totalTransactions
          /\ \A ph \in PhoneHashes :
               \A i, j \in 1 .. Len(transactionHistory[ph]) :
                  i # j => transactionHistory[ph][i].txHash
                             # transactionHistory[ph][j].txHash
          /\ \A h \in DOMAIN transactionByHash : transactionByHash[h].txHash = h)
    /\ [][/\ \A ph \in PhoneHashes :
               /\ Len(transactionHistory'[ph]) >= Len(transactionHistory[ph])
               /\ SubSeq(transactionHistory'[ph], 1, Len(transactionHistory[ph]))
                    = transactionHistory[ph]
          /\ \A h \in DOMAIN transactionByHash :
               /\ h \in DOMAIN transactionByHash'
               /\ transactionByHash'[h] = transactionByHash[h]
          /\ (last'.op = "transfer" /\ last'.err = "ok") =>
               LET from == last'.args[2]
                   to == last'.args[3]
                   value == last'.args[4]
                   fee == (value * transferFeeBps) \div 10000
                   rec == [fromPhoneHash |-> from,
                           toPhoneHash   |-> to,
                           amount        |-> value - fee,
                           fee           |-> fee,
                           timestamp     |-> now,
                           txHash        |-> <<from, to, value, now,
                                                 totalTransactions>>]
               IN /\ transactionHistory'[from]
                       = Append(transactionHistory[from], rec)
                  /\ transactionHistory'[to]
                       = Append(transactionHistory[to], rec)
                  /\ rec.txHash \notin DOMAIN transactionByHash
                  /\ DOMAIN transactionByHash'
                       = DOMAIN transactionByHash \cup {rec.txHash}
                  /\ transactionByHash'[rec.txHash] = rec
                  /\ totalTransactions' = totalTransactions + 1
          /\ ~(last'.op = "transfer" /\ last'.err = "ok") =>
               /\ transactionHistory' = transactionHistory
               /\ transactionByHash' = transactionByHash
               /\ totalTransactions' = totalTransactions]_vars

\* Reached: the same transfer made twice in one block, two records.
C34_Witness ==
    /\ totalTransactions = 2
    /\ Len(transactionHistory["p1"]) = 2
    /\ transactionHistory["p1"][1].fromPhoneHash = "p1"
    /\ transactionHistory["p1"][2].fromPhoneHash = "p1"
    /\ transactionHistory["p1"][1].amount = transactionHistory["p1"][2].amount
    /\ transactionHistory["p1"][1] # transactionHistory["p1"][2]
    /\ transactionHistory["p2"] = transactionHistory["p1"]

-----------------------------------------------------------------------------
(* Properties of the liquidity pool *)

\* The collateral that MicroLoan holds for the loans that are Active
ActiveCollateral ==
    (IF loans["p1"].status = "Active" THEN loans["p1"].collateral ELSE 0)
    + (IF loans["p2"].status = "Active" THEN loans["p2"].collateral ELSE 0)

\* C35: the pool is backed by the funds MicroLoan holds: in every state
\* availableLiquidity plus the collateral of the Active loans is at most the
\* balance of MicroLoan.
C35_PoolBacked == availableLiquidity + ActiveCollateral <= loanBalance


\* C36: no Active loan gets stuck: whatever part of it is repaid, once
\* now > startTime + duration a processDefault by an authorized caller goes
\* through and leaves the loan Defaulted.
C36_DefaultSucceeds ==
    [][(/\ last'.op = "processDefault"
        /\ LoanAuthorized(last'.args[1])
        /\ loans[last'.args[2]].status = "Active"
        /\ now > loans[last'.args[2]].startTime + loans[last'.args[2]].duration)
       => /\ last'.err = "ok"
          /\ loans'[last'.args[2]].status = "Defaulted"]_vars


\* The principals of the loans that are Active, added up
ActivePrincipal ==
    (IF loans["p1"].status = "Active" THEN loans["p1"].principal ELSE 0)
    + (IF loans["p2"].status = "Active" THEN loans["p2"].principal ELSE 0)

\* The interest of the loans that are Repaid, added up over all loans made
RECURSIVE RepaidInterest(_)
RepaidInterest(ids) ==
    IF ids = {} THEN 0
    ELSE LET i == CHOOSE x \in ids : TRUE IN
         (IF loansById[i].status = "Repaid"
          THEN loansById[i].totalDue - loansById[i].principal ELSE 0)
         + RepaidInterest(ids \ {i})

\* C37: in every state totalActiveLoanValue is the sum of the principals of
\* the loans that are Active, and totalInterestEarned is the sum of
\* totalDue - principal over the loans that are Repaid.
C37_Aggregates ==
    /\ totalActiveLoanValue = ActivePrincipal
    /\ totalInterestEarned = RepaidInterest(DOMAIN loansById)

\* The half of C37 that holds: totalInterestEarned is the sum of
\* totalDue - principal over the loans that are Repaid.
C37_InterestEarned == totalInterestEarned = RepaidInterest(DOMAIN loansById)

-----------------------------------------------------------------------------
(* Properties of the daily counters *)

\* The gross values (amount + fee) of the records of `history` that
\* phoneHash sent on day d, added up
RECURSIVE GrossSent(_, _, _)
GrossSent(history, phoneHash, d) ==
    IF history = << >> THEN 0
    ELSE (IF Head(history).fromPhoneHash = phoneHash
             /\ Head(history).timestamp \div DAY = d
          THEN Head(history).amount + Head(history).fee ELSE 0)
         + GrossSent(Tail(history), phoneHash, d)

\* C38 as stated: in every state every daily counter is at most the current
\* dailyLimit, and getDailyTransferStatus reports dailyLimit - counter as
\* what remains.
C38_WithinLimit ==
    \A ph \in Parties :
       /\ \A d \in Days : dailyTransfers[ph][d] <= dailyTransferLimit
       /\ getDailyTransferStatus(ph)[2]
            = dailyTransferLimit - dailyTransfers[ph][Today]

\* C38, amended: in every state the counter of an identity and a day is the
\* sum of the gross values of the transfers the identity sent that day; a
\* transfer goes through only if today's counter plus its value is at most
\* the dailyLimit of that moment, adds its value to today's counter alone,
\* and is turned away for the daily limit only if today's counter plus its
\* value is above the limit, whatever the counters of other days hold; a
\* step that does not lower dailyLimit keeps the counters at most the limit;
\* getDailyTransferStatus reports today's counter and, as what remains,
\* dailyLimit - counter when the counter is below the limit and 0 otherwise.
C38_DailyCounter ==
    /\ [](\A ph \in Parties :
            /\ \A d \in Days :
                 dailyTransfers[ph][d]
                   = GrossSent(transactionHistory[ph], ph, d)
            /\ getDailyTransferStatus(ph)[1] = dailyTransfers[ph][Today]
            /\ getDailyTransferStatus(ph)[2]
                 = IF dailyTransfers[ph][Today] < dailyTransferLimit
                   THEN dailyTransferLimit - dailyTransfers[ph][Today]
                   ELSE 0)
    /\ [][/\ (last'.op = "transfer" /\ last'.err = "ok") =>
               /\ dailyTransfers[last'.args[2]][Today] + last'.args[4]
                    <= dailyTransferLimit
               /\ dailyTransfers' =
                    [dailyTransfers EXCEPT
                       ![last'.args[2]][Today] = @ + last'.args[4]]
          /\ (last'.op = "transfer" /\ last'.err = "DailyLimitExceeded") =>
               dailyTransfers[last'.args[2]][Today] + last'.args[4]
                 > dailyTransferLimit
          /\ ~(last'.op = "transfer" /\ last'.err = "ok") =>
               dailyTransfers' = dailyTransfers
          /\ (/\ dailyTransferLimit' >= dailyTransferLimit
              /\ \A ph \in Parties, d \in Days :
                    dailyTransfers[ph][d] <= dailyTransferLimit)
             => \A ph \in Parties, d \in Days :
                    dailyTransfers'[ph][d] <= dailyTransferLimit']_vars

\* Reached: under a limit of 400 "p1" has sent 250 on day 0 and 250 on day 1.
C38_Witness ==
    /\ last.op = "transfer"
    /\ last.err = "ok"
    /\ dailyTransferLimit = 400
    /\ Today = 1
    /\ dailyTransfers["p1"][0] = 250
    /\ dailyTransfers["p1"][1] = 250

\* Reached: the limit is lowered to 200 after "p1" has sent 250 that day.
C38_LoweredWitness ==
    /\ dailyTransferLimit = 200
    /\ dailyTransfers["p1"][Today] = 250
    /\ getDailyTransferStatus("p1") = <<250, 0>>

-----------------------------------------------------------------------------
(* Properties of the fees held *)

\* C39: P2PTransfer pays collected fees out as fees only: in every state it
\* holds at least accumulatedFees; an emergencyWithdraw that goes through
\* takes at most the balance less accumulatedFees and leaves the fees as
\* they are; so a withdrawFees by the owner to a wallet that accepts the
\* ether pays accumulatedFees in full whenever there are fees.
C39_FeesBacked ==
    /\ [](p2pBalance >= accumulatedFees)
    /\ [][/\ (last'.op = "emergencyWithdraw" /\ last'.err = "ok") =>
               /\ last'.args[3] <= p2pBalance - accumulatedFees
               /\ p2pBalance' = p2pBalance - last'.args[3]
               /\ accumulatedFees' = accumulatedFees
          /\ (/\ last'.op = "withdrawFees"
              /\ last'.args[1] = Owner
              /\ last'.args[3]
              /\ accumulatedFees > 0) =>
               /\ last'.err = "ok"
               /\ last'.paid = accumulatedFees
               /\ accumulatedFees' = 0
               /\ p2pBalance' = p2pBalance - accumulatedFees]_vars

\* Reached: an emergencyWithdraw has taken all but the fees, and fees are
\* held.
C39_Witness ==
    /\ last.op = "emergencyWithdraw"
    /\ last.err = "ok"
    /\ accumulatedFees > 0
    /\ p2pBalance = accumulatedFees

-----------------------------------------------------------------------------
(* Properties of the collateral *)

====
